---------------------------- MODULE Spec2Model ----------------------------
(***************************************************************************)
(* A model of the request sanitization and abuse-prevention layer of       *)
(* open-lovable (lib/security.ts): the command validator, the URL          *)
(* validator, the sandbox path validator, the package-name validators and  *)
(* the in-memory rate limiter with its background sweep; and of the six    *)
(* API routes that call them before they reach a sandbox or a scraper.     *)
(*                                                                         *)
(* A JavaScript string is a sequence of characters; a character is a       *)
(* one-character TLA+ string, except for the characters that cannot be     *)
(* written in a TLA+ string, which are named: "BACKTICK" (U+0060),         *)
(* "NUL" (U+0000) and "NBSP" (U+00A0).                                     *)
(***************************************************************************)
EXTENDS Integers, Sequences, FiniteSets, TLC

VARIABLES
    command,        \* the value handed to validateCommand
    cmdPieces,      \* the number of pieces command was assembled from
    cmdResult       \* what validateCommand returned for it, or NoResult

cmdVars == <<command, cmdPieces, cmdResult>>

VARIABLES
    path,           \* the value handed to validateSandboxPath
    allowedBase,    \* its second argument
    pathPieces,     \* the number of pieces path was assembled from
    pathResult      \* what validateSandboxPath returned, or NoResult

pathVars == <<path, allowedBase, pathPieces, pathResult>>

VARIABLES
    urlInput,       \* the string handed to validateUrl
    urlStage,       \* the part of the URL the client wrote last
    urlResult       \* what validateUrl returned for it, or NoResult

urlVars == <<urlInput, urlStage, urlResult>>

VARIABLES
    rateLimitStore, \* the Map: key -> timestamps of the admitted requests
    now,            \* Date.now(), in milliseconds
    lastSweep,      \* the time the sweep timer was set or last fired
    ticks,          \* the number of times the clock has advanced
    decisions       \* per key, what every checkRateLimit call returned

rateVars == <<rateLimitStore, now, lastSweep, ticks, decisions>>

VARIABLES
    pkgName,        \* the value handed to validatePackageName
    pkgStage,       \* the part of the name the client wrote last
    pkgNameResult,  \* what validatePackageName returned, once it has run
    packages,       \* the value handed to sanitizePackageList
    pkgListResult   \* what sanitizePackageList returned, once it has run

pkgVars == <<pkgName, pkgStage, pkgNameResult, packages, pkgListResult>>

VARIABLES
    req,            \* the request a route handler is serving: its locals,
                    \* what it handed to its collaborator, its response
    only400         \* history: every request admitted so far got a 400

routeVars == <<req, only400>>

vars == <<cmdVars, pathVars, urlVars, rateVars, pkgVars, routeVars>>

-----------------------------------------------------------------------------
(* Bounds of the model *)

\* the number of pieces an input of validateCommand is assembled from
MaxCmdPieces == 3

\* the number of pieces an input of validateSandboxPath is assembled from
MaxPathPieces == 3

\* the checkRateLimit calls and the clock advances of a behaviour
MaxCalls == 3
MaxTicks == 3

\* the elements of a list handed to sanitizePackageList
MaxPackages == 3

\* the requests the rate limiter admits in a behaviour of the routes
MaxAdmitted == 21

\* the entries the rate limiter's store holds in a behaviour of the routes
MaxEntries == 2

-----------------------------------------------------------------------------
(* JavaScript strings *)

\* The characters String.prototype.trim strips and the regular expression
\* class \s matches (ECMAScript WhiteSpace and LineTerminator), as far as
\* the inputs of the model use them.
WhiteSpaceChars == {" ", "\t", "\n", "\r", "\f", "NBSP"}

LowerAlpha ==
    {"a","b","c","d","e","f","g","h","i","j","k","l","m",
     "n","o","p","q","r","s","t","u","v","w","x","y","z"}

UpperAlpha ==
    {"A","B","C","D","E","F","G","H","I","J","K","L","M",
     "N","O","P","Q","R","S","T","U","V","W","X","Y","Z"}

Digits == {"0","1","2","3","4","5","6","7","8","9"}

\* the regular expression class \w
WordChars == LowerAlpha \cup UpperAlpha \cup Digits \cup {"_"}

\* Array.prototype.concat over a list of strings
RECURSIVE Concat(_)
Concat(ss) ==
    IF ss = <<>> THEN <<>> ELSE Head(ss) \o Concat(Tail(ss))

\* String.prototype.startsWith
StartsWith(s, prefix) ==
    /\ Len(prefix) <= Len(s)
    /\ SubSeq(s, 1, Len(prefix)) = prefix

\* s has sub at position i
MatchAt(s, sub, i) ==
    /\ i >= 1
    /\ i + Len(sub) - 1 <= Len(s)
    /\ SubSeq(s, i, i + Len(sub) - 1) = sub

\* String.prototype.includes, and a regular expression that is a literal
Includes(s, sub) ==
    \E i \in 1..(Len(s) + 1) : MatchAt(s, sub, i)

\* the assertion \b at the position before s[i]: exactly one of s[i-1],
\* s[i] is a word character (outside the string counts as a non-word one)
WordBoundary(s, i) ==
    LET before == i > 1 /\ s[i - 1] \in WordChars
        after  == i <= Len(s) /\ s[i] \in WordChars
    IN  before # after

\* the regular expression /\bword\b/
MatchesWord(s, word) ==
    \E i \in 1..Len(s) :
        /\ MatchAt(s, word, i)
        /\ WordBoundary(s, i)
        /\ WordBoundary(s, i + Len(word))

\* the first position from i on that holds no white space, or Len(s) + 1
RECURSIVE SkipWhiteSpace(_, _)
SkipWhiteSpace(s, i) ==
    IF i > Len(s) \/ s[i] \notin WhiteSpaceChars THEN i
    ELSE SkipWhiteSpace(s, i + 1)

\* the last position up to i that holds no white space, or 0
RECURSIVE SkipWhiteSpaceBack(_, _)
SkipWhiteSpaceBack(s, i) ==
    IF i < 1 \/ s[i] \notin WhiteSpaceChars THEN i
    ELSE SkipWhiteSpaceBack(s, i - 1)

\* String.prototype.trim
Trim(s) ==
    SubSeq(s, SkipWhiteSpace(s, 1), SkipWhiteSpaceBack(s, Len(s)))

\* String.prototype.split(/\s+/): the pieces between the maximal runs of
\* white space; a run at the start or at the end leaves an empty piece.
RECURSIVE SplitFrom(_, _, _, _)
SplitFrom(s, i, cur, acc) ==
    IF i > Len(s) THEN Append(acc, cur)
    ELSE IF s[i] \in WhiteSpaceChars
         THEN SplitFrom(s, SkipWhiteSpace(s, i), <<>>, Append(acc, cur))
         ELSE SplitFrom(s, i + 1, Append(cur, s[i]), acc)

\* a split at every single white-space character, as split(/\s/) does
RECURSIVE SplitEachFrom(_, _, _, _)
SplitEachFrom(s, i, cur, acc) ==
    IF i > Len(s) THEN Append(acc, cur)
    ELSE IF s[i] \in WhiteSpaceChars
         THEN SplitEachFrom(s, i + 1, <<>>, Append(acc, cur))
         ELSE SplitEachFrom(s, i + 1, Append(cur, s[i]), acc)

SplitEachWhitespace(s) == SplitEachFrom(s, 1, <<>>, <<>>)

SplitWhitespace(s) == SplitFrom(s, 1, <<>>, <<>>)

\* Array.prototype.join(' ')
RECURSIVE JoinSpace(_)
JoinSpace(parts) ==
    IF parts = <<>> THEN <<>>
    ELSE IF Len(parts) = 1 THEN parts[1]
    ELSE parts[1] \o <<" ">> \o JoinSpace(Tail(parts))

\* the position of x in the sequence q, or 0
IndexOf(q, x) ==
    IF \E i \in 1..Len(q) : q[i] = x
    THEN CHOOSE i \in 1..Len(q) : q[i] = x /\ \A j \in 1..(i - 1) : q[j] # x
    ELSE 0

UpperSeq ==
    <<"A","B","C","D","E","F","G","H","I","J","K","L","M",
      "N","O","P","Q","R","S","T","U","V","W","X","Y","Z">>

LowerSeq ==
    <<"a","b","c","d","e","f","g","h","i","j","k","l","m",
      "n","o","p","q","r","s","t","u","v","w","x","y","z">>

\* String.prototype.toLowerCase, and the URL parser's ASCII lower-casing
ToLowerCase(s) ==
    [i \in 1..Len(s) |->
        IF s[i] \in UpperAlpha THEN LowerSeq[IndexOf(UpperSeq, s[i])] ELSE s[i]]

\* String.prototype.split on one character
RECURSIVE SplitOnFrom(_, _, _, _, _)
SplitOnFrom(s, ch, i, cur, acc) ==
    IF i > Len(s) THEN Append(acc, cur)
    ELSE IF s[i] = ch THEN SplitOnFrom(s, ch, i + 1, <<>>, Append(acc, cur))
    ELSE SplitOnFrom(s, ch, i + 1, Append(cur, s[i]), acc)

SplitOn(s, ch) == SplitOnFrom(s, ch, 1, <<>>, <<>>)

HexDigitSeq ==
    <<"0","1","2","3","4","5","6","7","8","9","a","b","c","d","e","f">>

HexDigits == {HexDigitSeq[i] : i \in 1..16} \cup {"A","B","C","D","E","F"}

\* the value of the digits s in the given radix, or -1 when s is empty or
\* holds a character that is no digit of that radix
RECURSIVE ParseRadix(_, _, _)
ParseRadix(s, radix, acc) ==
    IF s = <<>> THEN acc
    ELSE LET d == IndexOf(HexDigitSeq, ToLowerCase(<<Head(s)>>)[1]) - 1
         IN  IF d < 0 \/ d >= radix THEN -1
             ELSE ParseRadix(Tail(s), radix, acc * radix + d)

ParseInt(s, radix) == IF s = <<>> THEN -1 ELSE ParseRadix(s, radix, 0)

\* the digits of n >= 0 in the given radix, lower case, no leading zero
RECURSIVE NumberToString(_, _)
NumberToString(n, radix) ==
    IF n < radix THEN <<HexDigitSeq[n + 1]>>
    ELSE NumberToString(n \div radix, radix) \o <<HexDigitSeq[(n % radix) + 1]>>

\* Array.prototype.join with a separator
RECURSIVE Join(_, _)
Join(parts, sep) ==
    IF parts = <<>> THEN <<>>
    ELSE IF Len(parts) = 1 THEN parts[1]
    ELSE parts[1] \o sep \o Join(Tail(parts), sep)

-----------------------------------------------------------------------------
(* Values of any type handed to a validator *)

Str(chars) == [type |-> "string", chars |-> chars]

\* null, undefined, a number: what a JSON body can hold in place of a string
NonStrings ==
    {[type |-> "null", chars |-> <<>>],
     [type |-> "undefined", chars |-> <<>>],
     [type |-> "number", chars |-> <<>>]}

\* the result slot of a validator before it has run
NoResult == [valid |-> FALSE, error |-> "none"]

-----------------------------------------------------------------------------
(* Command validator: validateCommand *)

ALLOWED_COMMANDS ==
    {<<"n","p","m">>,
     <<"n","p","x">>,
     <<"n","o","d","e">>,
     <<"c","a","t">>,
     <<"l","s">>,
     <<"p","w","d">>,
     <<"m","k","d","i","r">>,
     <<"f","i","n","d">>,
     <<"e","c","h","o">>,
     <<"c","p">>,
     <<"m","v">>,
     <<"r","m">>,
     <<"h","e","a","d">>,
     <<"t","a","i","l">>,
     <<"w","c">>,
     <<"g","r","e","p">>,
     <<"w","h","i","c","h">>,
     <<"e","n","v">>,
     <<"v","i","t","e">>,
     <<"t","s","c">>,
     <<"e","s","l","i","n","t">>,
     <<"p","r","e","t","t","i","e","r">>}

\* the class without the dollar sign
ShellMetaCharsNoDollar == {";", "&", "|", "BACKTICK"}

\* the characters of the class [;&|`$]
ShellMetaChars == {";", "&", "|", "BACKTICK", "$"}

\* The deny list, in the order the code tries it.  kind "class" is a
\* character class, "literal" a literal substring, "word" a word between
\* two \b assertions.
BLOCKED_PATTERNS ==
    <<[kind |-> "class", text |-> <<>>, source |-> "shell-metacharacters"],
      [kind |-> "literal", text |-> <<".",".","/">>, source |-> "../"],
      [kind |-> "literal", text |-> <<"/","e","t","c","/">>, source |-> "/etc/"],
      [kind |-> "literal", text |-> <<"/","p","r","o","c","/">>, source |-> "/proc/"],
      [kind |-> "literal", text |-> <<"/","s","y","s","/">>, source |-> "/sys/"],
      [kind |-> "word", text |-> <<"s","u","d","o">>, source |-> "sudo"],
      [kind |-> "word", text |-> <<"c","u","r","l">>, source |-> "curl"],
      [kind |-> "word", text |-> <<"w","g","e","t">>, source |-> "wget"],
      [kind |-> "word", text |-> <<"c","h","m","o","d">>, source |-> "chmod"],
      [kind |-> "word", text |-> <<"c","h","o","w","n">>, source |-> "chown"],
      [kind |-> "word", text |-> <<"d","d">>, source |-> "dd"],
      [kind |-> "word", text |-> <<"m","k","f","s">>, source |-> "mkfs"],
      [kind |-> "word", text |-> <<"k","i","l","l">>, source |-> "kill"],
      [kind |-> "word", text |-> <<"p","k","i","l","l">>, source |-> "pkill"],
      [kind |-> "word", text |-> <<"r","e","b","o","o","t">>, source |-> "reboot"],
      [kind |-> "word", text |-> <<"s","h","u","t","d","o","w","n">>, source |-> "shutdown"]>>

\* RegExp.prototype.test of one deny-list pattern
PatternTest(pattern, s) ==
    CASE pattern.kind = "class"   -> \E i \in 1..Len(s) : s[i] \in ShellMetaChars
      [] pattern.kind = "literal" -> Includes(s, pattern.text)
      [] pattern.kind = "word"    -> MatchesWord(s, pattern.text)

\* the index of the first deny-list pattern that matches s, or 0
FirstBlockedPattern(s) ==
    LET hits == {i \in 1..Len(BLOCKED_PATTERNS) : PatternTest(BLOCKED_PATTERNS[i], s)}
    IN  IF hits = {} THEN 0
        ELSE CHOOSE i \in hits : \A j \in hits : i <= j

CmdRejected(error, detail) ==
    [valid |-> FALSE, cmd |-> <<>>, args |-> <<>>, error |-> error, detail |-> detail]

\* a membership test that accepts any word starting with an allowed command
IsAllowedCommandPrefix(cmd) ==
    \E a \in ALLOWED_COMMANDS : StartsWith(cmd, a)

\* ALLOWED_COMMANDS.has(cmd)
IsAllowedCommand(cmd) == cmd \in ALLOWED_COMMANDS

\* the maximum length of a command
MAX_COMMAND_LENGTH == 2000

validateCommand(c) ==
    IF c.type # "string" \/ c.chars = <<>>
    THEN CmdRejected("required", "")
    ELSE LET trimmed == Trim(c.chars)
         IN  IF Len(trimmed) = 0 THEN CmdRejected("empty", "")
             ELSE IF Len(trimmed) > MAX_COMMAND_LENGTH THEN CmdRejected("too_long", "")
             ELSE IF FirstBlockedPattern(trimmed) # 0
                  THEN CmdRejected("blocked_pattern",
                                   BLOCKED_PATTERNS[FirstBlockedPattern(trimmed)].source)
             ELSE LET parts == SplitWhitespace(trimmed)
                      cmd   == parts[1]
                      args  == Tail(parts)
                  IN  IF ~IsAllowedCommand(cmd)
                      THEN CmdRejected("not_allowed", "")
                      ELSE [valid |-> TRUE, cmd |-> cmd, args |-> args,
                            error |-> "", detail |-> ""]

\* The pieces the inputs of validateCommand are assembled from: allowed and
\* unknown executables, a denied word, white space, arguments, the shell
\* metacharacters and two denied substrings.
CmdPieces ==
    {<<"n","p","m">>,
     <<"l","s">>,
     <<"b","a","s","h">>,
     <<"d","d">>,
     <<" ">>,
     <<"\t">>,
     <<"NBSP">>,
     <<" ","a">>,
     <<"\t"," ","-","b">>,
     <<";">>,
     <<"|">>,
     <<"&">>,
     <<"$">>,
     <<"BACKTICK">>,
     <<".",".","/">>,
     <<"/","e","t","c","/">>}

\* a run of one more character than MAX_COMMAND_LENGTH allows
LongArgument == [i \in 1..(MAX_COMMAND_LENGTH + 1) |-> "a"]

CmdInit ==
    /\ command = Str(<<>>)
    /\ cmdPieces = 0
    /\ cmdResult = NoResult

\* the client extends the command it is about to send by one piece
CmdAppend ==
    /\ command.type = "string"
    /\ cmdResult = NoResult
    /\ cmdPieces < MaxCmdPieces
    /\ Len(command.chars) <= MAX_COMMAND_LENGTH
    /\ \E p \in CmdPieces : command' = Str(command.chars \o p)
    /\ cmdPieces' = cmdPieces + 1
    /\ UNCHANGED cmdResult

\* the client pads the command beyond the maximum length
CmdPad ==
    /\ command.type = "string"
    /\ cmdResult = NoResult
    /\ cmdPieces < MaxCmdPieces
    /\ Len(command.chars) <= MAX_COMMAND_LENGTH
    /\ command' = Str(command.chars \o LongArgument)
    /\ cmdPieces' = cmdPieces + 1
    /\ UNCHANGED cmdResult

\* the client sends a JSON body whose command is not a string
CmdNonString ==
    /\ cmdPieces = 0
    /\ cmdResult = NoResult
    /\ command.type = "string"
    /\ \E v \in NonStrings : command' = v
    /\ UNCHANGED <<cmdPieces, cmdResult>>

\* a route calls validateCommand(command)
CmdValidate ==
    /\ cmdResult = NoResult
    /\ cmdResult' = validateCommand(command)
    /\ UNCHANGED <<command, cmdPieces>>


-----------------------------------------------------------------------------
(* The URL parser behind new URL(input) (the WHATWG URL Standard), for     *)
(* inputs without a base URL: scheme, authority, host.  Percent-escapes,   *)
(* internationalised names and an IPv4 address embedded in an IPv6 literal *)
(* are outside the inputs of the model; path, query and fragment do not    *)
(* reach validateUrl and are not kept.                                     *)

\* the first position of s that holds a character of set, or Len(s) + 1
FirstIndexIn(s, set) ==
    LET hits == {i \in 1..Len(s) : s[i] \in set}
    IN  IF hits = {} THEN Len(s) + 1
        ELSE CHOOSE i \in hits : \A j \in hits : i <= j

\* the last position of s that holds ch, or 0
LastIndexOf(s, ch) ==
    LET hits == {i \in 1..Len(s) : s[i] = ch}
    IN  IF hits = {} THEN 0
        ELSE CHOOSE i \in hits : \A j \in hits : j <= i

\* s from position i on
From(s, i) == SubSeq(s, i, Len(s))

\* A number of any size: its base-256 digits, lowest first, no leading
\* zero; NotANumber is the parse failure.
NotANumber == <<-1>>

\* bytes * radix + carry
RECURSIVE MulAdd(_, _, _)
MulAdd(bytes, radix, carry) ==
    IF bytes = <<>>
    THEN IF carry = 0 THEN <<>>
         ELSE <<carry % 256>> \o MulAdd(<<>>, radix, carry \div 256)
    ELSE <<(bytes[1] * radix + carry) % 256>>
         \o MulAdd(Tail(bytes), radix, (bytes[1] * radix + carry) \div 256)

\* the number the digits s denote in the given radix
RECURSIVE ParseBytes(_, _, _)
ParseBytes(s, radix, acc) ==
    IF s = <<>> THEN acc
    ELSE LET d == IndexOf(HexDigitSeq, ToLowerCase(<<Head(s)>>)[1]) - 1
         IN  IF d < 0 \/ d >= radix THEN NotANumber
             ELSE ParseBytes(Tail(s), radix, MulAdd(acc, radix, d))

HostFailure == [kind |-> "failure", name |-> <<>>, bytes |-> <<>>, groups |-> <<>>]
HostNone    == [kind |-> "none", name |-> <<>>, bytes |-> <<>>, groups |-> <<>>]
HostEmpty   == [kind |-> "empty", name |-> <<>>, bytes |-> <<>>, groups |-> <<>>]

\* the IPv4 number parser: 0x prefix hexadecimal, leading 0 octal, else
\* decimal
ParseIPv4Number(part) ==
    IF part = <<>> THEN NotANumber
    ELSE IF Len(part) >= 2 /\ part[1] = "0" /\ part[2] \in {"x", "X"}
         THEN ParseBytes(From(part, 3), 16, <<>>)
    ELSE IF Len(part) >= 2 /\ part[1] = "0"
         THEN ParseBytes(From(part, 2), 8, <<>>)
    ELSE ParseBytes(part, 10, <<>>)

\* the parts of a host between dots, a trailing empty part dropped
IPv4Parts(host) ==
    LET parts == SplitOn(host, ".")
    IN  IF Len(parts) > 1 /\ parts[Len(parts)] = <<>>
        THEN SubSeq(parts, 1, Len(parts) - 1)
        ELSE parts

\* the ends-in-a-number checker
EndsInNumber(host) ==
    LET parts == IPv4Parts(host)
        last  == parts[Len(parts)]
    IN  /\ last # <<>>
        /\ \/ \A i \in 1..Len(last) : last[i] \in Digits
           \/ ParseIPv4Number(last) # NotANumber

\* the IPv4 parser: every part but the last is one byte, the last part
\* fills the bytes that remain
ParseIPv4(host) ==
    LET parts   == IPv4Parts(host)
        n       == Len(parts)
        numbers == [i \in 1..n |-> ParseIPv4Number(parts[i])]
        last    == numbers[n]
    IN  IF n > 4 \/ \E i \in 1..n : numbers[i] = NotANumber THEN HostFailure
        ELSE IF \E i \in 1..(n - 1) : Len(numbers[i]) > 1 THEN HostFailure
        ELSE IF Len(last) > 5 - n THEN HostFailure
        ELSE [kind |-> "ipv4", name |-> <<>>, groups |-> <<>>,
              bytes |-> [i \in 1..4 |->
                           IF i < n
                           THEN IF numbers[i] = <<>> THEN 0 ELSE numbers[i][1]
                           ELSE IF 5 - i <= Len(last) THEN last[5 - i] ELSE 0]]

\* one piece of an IPv6 address: one to four hexadecimal digits
IsIPv6Piece(g) ==
    /\ Len(g) \in 1..4
    /\ \A i \in 1..Len(g) : g[i] \in HexDigits

\* the pieces of one side of an IPv6 address
IPv6Side(text) == IF text = <<>> THEN <<>> ELSE SplitOn(text, ":")

\* the position of the first "::" in text, or 0
CompressAt(text) ==
    LET hits == {i \in 1..(Len(text) - 1) : text[i] = ":" /\ text[i + 1] = ":"}
    IN  IF hits = {} THEN 0 ELSE CHOOSE i \in hits : \A j \in hits : i <= j

\* the IPv6 parser, on the text between the brackets
ParseIPv6(text) ==
    LET c     == CompressAt(text)
        left  == IF c = 0 THEN IPv6Side(text) ELSE IPv6Side(SubSeq(text, 1, c - 1))
        right == IF c = 0 THEN <<>> ELSE IPv6Side(From(text, c + 2))
        given == left \o right
        zeros == [i \in 1..(8 - Len(given)) |-> 0]
    IN  IF \E i \in 1..Len(given) : ~IsIPv6Piece(given[i]) THEN HostFailure
        ELSE IF c = 0 /\ Len(given) # 8 THEN HostFailure
        ELSE IF c # 0 /\ Len(given) > 7 THEN HostFailure
        ELSE [kind |-> "ipv6", name |-> <<>>, bytes |-> <<>>,
              groups |-> [i \in 1..Len(left) |-> ParseInt(left[i], 16)]
                         \o zeros
                         \o [i \in 1..Len(right) |-> ParseInt(right[i], 16)]]

\* the forbidden domain code points that a TLA+ string can hold
ForbiddenDomainChars ==
    {" ", "\t", "\n", "\r", "\f", "NUL", "#", "/", ":", "<", ">", "?", "@",
     "[", "\\", "]", "^", "|", "%"}

\* the host parser; a special scheme's host is a domain (lower-cased), an
\* IPv4 address or an IPv6 address, another scheme's host is opaque
ParseHost(text, special) ==
    IF text # <<>> /\ text[1] = "["
    THEN IF text[Len(text)] # "]" THEN HostFailure
         ELSE ParseIPv6(SubSeq(text, 2, Len(text) - 1))
    ELSE IF \E i \in 1..Len(text) : text[i] \in ForbiddenDomainChars
         THEN HostFailure
    ELSE IF ~special
         THEN [kind |-> "opaque", name |-> text, bytes |-> <<>>, groups |-> <<>>]
    ELSE IF EndsInNumber(ToLowerCase(text)) THEN ParseIPv4(ToLowerCase(text))
    ELSE [kind |-> "domain", name |-> ToLowerCase(text), bytes |-> <<>>, groups |-> <<>>]

\* the length of the run of zero pieces that starts at position i
RECURSIVE ZeroRun(_, _)
ZeroRun(groups, i) ==
    IF i > Len(groups) \/ groups[i] # 0 THEN 0 ELSE 1 + ZeroRun(groups, i + 1)

\* the IPv6 serializer: the first longest run of two or more zero pieces is
\* written "::"
RECURSIVE SerializeIPv6From(_, _, _, _)
SerializeIPv6From(groups, i, compress, run) ==
    IF i > 8 THEN <<>>
    ELSE IF i = compress
         THEN (IF i = 1 THEN <<":", ":">> ELSE <<":">>)
              \o SerializeIPv6From(groups, i + run, compress, run)
    ELSE NumberToString(groups[i], 16)
         \o (IF i # 8 THEN <<":">> ELSE <<>>)
         \o SerializeIPv6From(groups, i + 1, compress, run)

SerializeIPv6(groups) ==
    LET longest  == CHOOSE r \in 0..8 :
                       /\ \E i \in 1..8 : ZeroRun(groups, i) = r
                       /\ \A i \in 1..8 : ZeroRun(groups, i) <= r
        compress == IF longest < 2 THEN 0
                    ELSE CHOOSE i \in 1..8 :
                             /\ ZeroRun(groups, i) = longest
                             /\ \A j \in 1..(i - 1) : ZeroRun(groups, j) # longest
    IN  SerializeIPv6From(groups, 1, compress, longest)

\* the host serializer, which the hostname getter returns: an IPv6 address
\* is written between brackets
SerializeHost(host) ==
    CASE host.kind = "ipv4" ->
             Join([i \in 1..4 |-> NumberToString(host.bytes[i], 10)], <<".">>)
      [] host.kind = "ipv6" -> <<"[">> \o SerializeIPv6(host.groups) \o <<"]">>
      [] host.kind \in {"domain", "opaque"} -> host.name
      [] OTHER -> <<>>

SPECIAL_SCHEMES == {<<"h","t","t","p">>, <<"h","t","t","p","s">>, <<"f","t","p">>,
                    <<"w","s">>, <<"w","s","s">>}

FILE_SCHEME == <<"f","i","l","e">>

\* a URL that failed to parse: new URL throws
UrlFailure == [ok |-> FALSE, protocol |-> <<>>, hostname |-> <<>>, host |-> HostFailure]

ParsedUrl(scheme, host) ==
    IF host.kind = "failure" THEN UrlFailure
    ELSE [ok |-> TRUE, protocol |-> scheme \o <<":">>,
          hostname |-> SerializeHost(host), host |-> host]

\* the authority of a URL: credentials up to the last "@", then the host
\* and, after a colon outside brackets, the port
ParseAuthority(authority, special) ==
    LET hostport == From(authority, LastIndexOf(authority, "@") + 1)
        bracket  == hostport # <<>> /\ hostport[1] = "["
        close    == IndexOf(hostport, "]")
        hostEnd  == IF bracket
                    THEN IF close = 0 THEN Len(hostport)
                         ELSE IF close = Len(hostport) \/ hostport[close + 1] = ":"
                              THEN close ELSE Len(hostport)
                    ELSE FirstIndexIn(hostport, {":"}) - 1
        hostText == SubSeq(hostport, 1, hostEnd)
        port     == From(hostport, hostEnd + 2)
    IN  IF special /\ hostText = <<>> THEN HostFailure
        ELSE IF port # <<>> /\ (ParseBytes(port, 10, <<>>) = NotANumber
                                \/ Len(ParseBytes(port, 10, <<>>)) > 2)
             THEN HostFailure
        ELSE IF hostText = <<>> THEN HostEmpty
        ELSE ParseHost(hostText, special)

\* leading and trailing C0 control characters and spaces are removed
StripControlAndSpace(s) ==
    LET keep == {i \in 1..Len(s) : s[i] \notin {" ", "\t", "\n", "\r", "\f", "NUL"}}
    IN  IF keep = {} THEN <<>>
        ELSE SubSeq(s, CHOOSE i \in keep : \A j \in keep : i <= j,
                       CHOOSE i \in keep : \A j \in keep : j <= i)

\* new URL(input): the basic URL parser without a base URL
ParseURL(input) ==
    LET stripped == StripControlAndSpace(input)
        text     == SelectSeq(stripped, LAMBDA c : c \notin {"\t", "\n", "\r"})
        colon    == IndexOf(text, ":")
        raw      == SubSeq(text, 1, colon - 1)
        scheme   == ToLowerCase(raw)
        rest     == From(text, colon + 1)
        slashes  == {"/", "\\"}
        stops    == {"/", "\\", "?", "#"}
    IN  IF colon < 2 THEN UrlFailure
        ELSE IF raw[1] \notin LowerAlpha \cup UpperAlpha THEN UrlFailure
        ELSE IF \E i \in 1..Len(raw) :
                    raw[i] \notin LowerAlpha \cup UpperAlpha \cup Digits \cup {"+", "-", "."}
             THEN UrlFailure
        ELSE IF scheme \in SPECIAL_SCHEMES
             THEN LET after     == From(rest, FirstIndexIn(rest,
                                       {rest[i] : i \in 1..Len(rest)} \ slashes))
                      authority == SubSeq(after, 1, FirstIndexIn(after, stops) - 1)
                  IN  ParsedUrl(scheme, ParseAuthority(authority, TRUE))
        ELSE IF scheme = FILE_SCHEME
             THEN IF Len(rest) >= 2 /\ rest[1] \in slashes /\ rest[2] \in slashes
                  THEN LET after    == From(rest, 3)
                           hostText == SubSeq(after, 1, FirstIndexIn(after, stops) - 1)
                           host     == IF hostText = <<>> THEN HostEmpty
                                       ELSE ParseHost(hostText, TRUE)
                       IN  IF host.kind = "domain"
                              /\ host.name = <<"l","o","c","a","l","h","o","s","t">>
                           THEN ParsedUrl(scheme, HostEmpty)
                           ELSE ParsedUrl(scheme, host)
                  ELSE ParsedUrl(scheme, HostEmpty)
        ELSE IF Len(rest) >= 2 /\ rest[1] = "/" /\ rest[2] = "/"
             THEN LET after     == From(rest, 3)
                      authority == SubSeq(after, 1, FirstIndexIn(after, {"/", "?", "#"}) - 1)
                  IN  ParsedUrl(scheme, ParseAuthority(authority, FALSE))
        ELSE ParsedUrl(scheme, HostNone)

-----------------------------------------------------------------------------
(* URL validator: validateUrl *)

BLOCKED_HOSTNAMES ==
    {<<"l","o","c","a","l","h","o","s","t">>,
     <<"1","2","7",".","0",".","0",".","1">>,
     <<"0",".","0",".","0",".","0">>,
     <<":",":","1">>,
     <<"[",":",":","1","]">>,
     <<"m","e","t","a","d","a","t","a",".","g","o","o","g","l","e",".","i","n","t","e","r","n","a","l">>,
     <<"1","6","9",".","2","5","4",".","1","6","9",".","2","5","4">>}

\* \d{1,3}
IsDigits1To3(part) ==
    /\ Len(part) \in 1..3
    /\ \A i \in 1..Len(part) : part[i] \in Digits

\* a second octet test that stops at 29
IsOctet16To29(part) ==
    /\ Len(part) = 2
    /\ \/ part[1] = "1" /\ part[2] \in {"6", "7", "8", "9"}
       \/ part[1] = "2" /\ part[2] \in Digits

\* (1[6-9]|2\d|3[01])
IsOctet16To31(part) ==
    /\ Len(part) = 2
    /\ \/ part[1] = "1" /\ part[2] \in {"6", "7", "8", "9"}
       \/ part[1] = "2" /\ part[2] \in Digits
       \/ part[1] = "3" /\ part[2] \in {"0", "1"}

\* The five anchored patterns of BLOCKED_HOSTNAME_PATTERNS, in order.  The
\* first three span the whole hostname and their parts hold no dot, so they
\* are tested on the hostname split at the dots.
HostnamePatternTest(n, hostname) ==
    LET parts == SplitOn(hostname, ".")
    IN  CASE n = 1 -> /\ Len(parts) = 4
                      /\ parts[1] = <<"1", "0">>
                      /\ \A i \in 2..4 : IsDigits1To3(parts[i])
          [] n = 2 -> /\ Len(parts) = 4
                      /\ parts[1] = <<"1", "7", "2">>
                      /\ IsOctet16To31(parts[2])
                      /\ \A i \in 3..4 : IsDigits1To3(parts[i])
          [] n = 3 -> /\ Len(parts) = 4
                      /\ parts[1] = <<"1", "9", "2">>
                      /\ parts[2] = <<"1", "6", "8">>
                      /\ \A i \in 3..4 : IsDigits1To3(parts[i])
          [] n = 4 -> /\ Len(hostname) >= 5
                      /\ ToLowerCase(SubSeq(hostname, 1, 2)) = <<"f", "c">>
                      /\ hostname[3] \in HexDigits
                      /\ hostname[4] \in HexDigits
                      /\ hostname[5] = ":"
          [] n = 5 -> StartsWith(ToLowerCase(hostname), <<"f", "e", "8", "0", ":">>)

\* the number of patterns in BLOCKED_HOSTNAME_PATTERNS
BLOCKED_HOSTNAME_PATTERN_COUNT == 5

UrlRejected(error, detail) ==
    [valid |-> FALSE, url |-> UrlFailure, error |-> error, detail |-> detail]

HTTP_PROTOCOLS == {<<"h","t","t","p",":">>, <<"h","t","t","p","s",":">>}

\* the hostname checks of validateUrl, after the protocol check
CheckHostname(url) ==
    LET hostname == ToLowerCase(url.hostname)
    IN  IF hostname \in BLOCKED_HOSTNAMES
        THEN UrlRejected("blocked_host", <<>>)
        ELSE IF \E n \in 1..BLOCKED_HOSTNAME_PATTERN_COUNT :
                    HostnamePatternTest(n, hostname)
             THEN UrlRejected("private_network", <<>>)
        ELSE [valid |-> TRUE, url |-> url, error |-> "", detail |-> <<>>]

\* a validator that looks at the hostname before the protocol
validateUrlHostFirst(input) ==
    LET url == ParseURL(input)
    IN  IF ~url.ok THEN UrlRejected("invalid_format", <<>>)
        ELSE IF ~CheckHostname(url).valid THEN CheckHostname(url)
        ELSE IF url.protocol \notin HTTP_PROTOCOLS
             THEN UrlRejected("invalid_protocol", url.protocol)
        ELSE CheckHostname(url)

validateUrl(input) ==
    LET url == ParseURL(input)
    IN  IF ~url.ok THEN UrlRejected("invalid_format", <<>>)
        ELSE IF url.protocol \notin HTTP_PROTOCOLS
             THEN UrlRejected("invalid_protocol", url.protocol)
        ELSE CheckHostname(url)

\* What the client writes before the host: a scheme with or without
\* slashes, or slashes alone.
UrlPrefixes ==
    {<<"h","t","t","p",":","/","/">>,
     <<"h","t","t","p","s",":","/","/">>,
     <<"H","T","T","P",":","/","/">>,
     <<"h","t","t","p",":">>,
     <<"f","t","p",":","/","/">>,
     <<"f","i","l","e",":","/","/">>,
     <<"j","a","v","a","s","c","r","i","p","t",":">>,
     <<"/","/">>}

\* credentials before the host
UrlCredentials == {<<"u","s","e","r","@">>, <<"e","x","a","m","p","l","e",".","c","o","m","@">>}

\* The hosts the client writes: public, loopback, metadata and private
\* names and addresses in several spellings, and malformed ones.
UrlHosts ==
    {<<"e","x","a","m","p","l","e",".","c","o","m">>,
     <<"E","x","a","m","p","l","e",".","C","O","M">>,
     <<"l","o","c","a","l","h","o","s","t">>,
     <<"L","O","C","A","L","H","O","S","T">>,
     <<"l","o","c","a","l","h","o","s","t",".">>,
     <<"1","2","7",".","0",".","0",".","1">>,
     <<"1","2","7",".","1">>,
     <<"0","x","7","f",".","0",".","0",".","1">>,
     <<"2","1","3","0","7","0","6","4","3","3">>,
     <<"0",".","0",".","0",".","0">>,
     <<"0">>,
     <<"1","6","9",".","2","5","4",".","1","6","9",".","2","5","4">>,
     <<"m","e","t","a","d","a","t","a",".","g","o","o","g","l","e",".","i","n","t","e","r","n","a","l">>,
     <<"M","e","t","a","d","a","t","a",".","G","o","o","g","l","e",".","I","n","t","e","r","n","a","l">>,
     <<"1","0",".","0",".","0",".","1">>,
     <<"1","0",".","2","5","5",".","2","5","5",".","2","5","5">>,
     <<"1","0",".","1">>,
     <<"0","1","0",".","0",".","0",".","1">>,
     <<"1","1",".","0",".","0",".","1">>,
     <<"1","7","2",".","1","6",".","0",".","1">>,
     <<"1","7","2",".","3","1",".","2","5","5",".","2","5","5">>,
     <<"1","7","2",".","1","5",".","0",".","1">>,
     <<"1","7","2",".","3","2",".","0",".","1">>,
     <<"1","9","2",".","1","6","8",".","1",".","1">>,
     <<"1","9","2",".","1","6","9",".","1",".","1">>,
     <<"1",".","2",".","3",".","2","5","6">>,
     <<"[",":",":","1","]">>,
     <<"[","0",":","0",":","0",":","0",":","0",":","0",":","0",":","1","]">>,
     <<"[","f","c","0","0",":",":","1","]">>,
     <<"[","F","D","1","2",":","3","4","5","6",":",":","1","]">>,
     <<"[","f","e","8","0",":",":","1","]">>,
     <<"[","f","e","b","f",":",":","1","]">>,
     <<"[","2","0","0","1",":","d","b","8",":",":","1","]">>,
     <<"[",":",":","1">>,
     <<"a","l","e","r","t","(","1",")">>,
     <<"e","x","a"," ","m","p","l","e",".","c","o","m">>}

UrlPorts == {<<":","3","0","0","0">>, <<":","9","9","9","9","9">>}

UrlPaths == {<<"/">>, <<"/","e","t","c","/","p","a","s","s","w","d">>, <<"/","a","?","b","#","c">>}

UrlInit ==
    /\ urlInput = <<>>
    /\ urlStage = "start"
    /\ urlResult = NoResult

\* the client writes the scheme
UrlWritePrefix ==
    /\ urlResult = NoResult
    /\ urlStage = "start"
    /\ \E p \in UrlPrefixes : urlInput' = urlInput \o p
    /\ urlStage' = "prefix"
    /\ UNCHANGED urlResult

\* the client writes credentials
UrlWriteCredentials ==
    /\ urlResult = NoResult
    /\ urlStage = "prefix"
    /\ \E p \in UrlCredentials : urlInput' = urlInput \o p
    /\ urlStage' = "credentials"
    /\ UNCHANGED urlResult

\* the client writes the host
UrlWriteHost ==
    /\ urlResult = NoResult
    /\ urlStage \in {"start", "prefix", "credentials"}
    /\ \E p \in UrlHosts : urlInput' = urlInput \o p
    /\ urlStage' = "host"
    /\ UNCHANGED urlResult

\* the client writes a port
UrlWritePort ==
    /\ urlResult = NoResult
    /\ urlStage = "host"
    /\ \E p \in UrlPorts : urlInput' = urlInput \o p
    /\ urlStage' = "port"
    /\ UNCHANGED urlResult

\* the client writes a path
UrlWritePath ==
    /\ urlResult = NoResult
    /\ urlStage \in {"prefix", "host", "port"}
    /\ \E p \in UrlPaths : urlInput' = urlInput \o p
    /\ urlStage' = "path"
    /\ UNCHANGED urlResult

\* a route calls validateUrl(url)
UrlValidate ==
    /\ urlResult = NoResult
    /\ urlResult' = validateUrl(urlInput)
    /\ UNCHANGED <<urlInput, urlStage>>

-----------------------------------------------------------------------------
(* Path validator: validateSandboxPath *)

\* the default value of allowedBase
DEFAULT_ALLOWED_BASE == <<"/","h","o","m","e","/","u","s","e","r","/","a","p","p">>

\* the second root every call accepts
VERCEL_SANDBOX_ROOT == <<"/","v","e","r","c","e","l","/","s","a","n","d","b","o","x">>

\* a test for the traversal token followed by a slash only
HasTraversalSlash(p) == Includes(p, <<".", ".", "/">>)

\* path.includes('..')
HasTraversal(p) == Includes(p, <<".", ".">>)

\* path.includes('\0')
HasNullByte(p) == Includes(p, <<"NUL">>)

PathRejected(error) ==
    [valid |-> FALSE, normalizedPath |-> <<>>, error |-> error]

validateSandboxPath(p, base) ==
    IF p.type # "string" \/ p.chars = <<>>
    THEN PathRejected("required")
    ELSE IF HasTraversal(p.chars) THEN PathRejected("traversal")
    ELSE IF HasNullByte(p.chars) THEN PathRejected("null_byte")
    ELSE LET fullPath == IF StartsWith(p.chars, <<"/">>) THEN p.chars
                         ELSE Concat(<<base, <<"/">>, p.chars>>)
         IN  IF /\ ~StartsWith(fullPath, base)
                /\ ~StartsWith(fullPath, VERCEL_SANDBOX_ROOT)
             THEN PathRejected("outside_sandbox")
             ELSE [valid |-> TRUE, normalizedPath |-> fullPath, error |-> ""]

\* The pieces the inputs of validateSandboxPath are assembled from: the two
\* roots, another directory, a separator, a dot, a name and a null byte.
PathPieces ==
    {DEFAULT_ALLOWED_BASE, VERCEL_SANDBOX_ROOT, <<"/","s","r","v">>,
     <<"/">>, <<".">>, <<"a">>, <<"NUL">>}

\* the values of allowedBase: the default and one a caller passes
AllowedBases == {DEFAULT_ALLOWED_BASE, <<"/","s","r","v">>}

PathInit ==
    /\ path = Str(<<>>)
    /\ allowedBase = DEFAULT_ALLOWED_BASE
    /\ pathPieces = 0
    /\ pathResult = NoResult

\* the caller extends the path it is about to check by one piece
PathAppend ==
    /\ path.type = "string"
    /\ pathResult = NoResult
    /\ pathPieces < MaxPathPieces
    /\ \E p \in PathPieces : path' = Str(path.chars \o p)
    /\ pathPieces' = pathPieces + 1
    /\ UNCHANGED <<allowedBase, pathResult>>

\* the caller passes an allowedBase of its own
PathChooseBase ==
    /\ pathPieces = 0
    /\ pathResult = NoResult
    /\ path.type = "string"
    /\ allowedBase = DEFAULT_ALLOWED_BASE
    /\ \E b \in AllowedBases \ {DEFAULT_ALLOWED_BASE} : allowedBase' = b
    /\ UNCHANGED <<path, pathPieces, pathResult>>

\* the caller passes a value that is not a string
PathNonString ==
    /\ pathPieces = 0
    /\ pathResult = NoResult
    /\ path.type = "string"
    /\ \E v \in NonStrings : path' = v
    /\ UNCHANGED <<allowedBase, pathPieces, pathResult>>

\* validateSandboxPath(path, allowedBase) is called
PathValidate ==
    /\ pathResult = NoResult
    /\ pathResult' = validateSandboxPath(path, allowedBase)
    /\ UNCHANGED <<path, allowedBase, pathPieces>>


-----------------------------------------------------------------------------
(* Package names: validatePackageName and sanitizePackageList *)

\* a first-character class that lets a dot through as well
PackageFirstCharsWithDot == LowerAlpha \cup Digits \cup {"-", "~", "."}

\* [a-z0-9-~] : the first character of a scope and of a name
PackageFirstChars == LowerAlpha \cup Digits \cup {"-", "~"}

\* [a-z0-9-._~] : the characters after the first
PackageRestChars == LowerAlpha \cup Digits \cup {"-", ".", "_", "~"}

\* [\w.^~>=<|-] : the characters of the version specifier
PackageVersionChars == WordChars \cup {".", "^", "~", ">", "=", "<", "|", "-"}

\* [a-z0-9-~][a-z0-9-._~]*
MatchesSegment(x) ==
    /\ Len(x) >= 1
    /\ x[1] \in PackageFirstChars
    /\ \A i \in 2..Len(x) : x[i] \in PackageRestChars

\* (@[a-z0-9-~][a-z0-9-._~]*\/)?
MatchesScope(x) ==
    \/ x = <<>>
    \/ /\ Len(x) >= 3
       /\ x[1] = "@"
       /\ x[Len(x)] = "/"
       /\ MatchesSegment(SubSeq(x, 2, Len(x) - 1))

\* (@[\w.^~>=<|-]+)?
MatchesVersion(x) ==
    \/ x = <<>>
    \/ /\ Len(x) >= 2
       /\ x[1] = "@"
       /\ \A i \in 2..Len(x) : x[i] \in PackageVersionChars

\* VALID_PACKAGE_PATTERN.test(s): s is a scope part, a name and a version
\* part, one after the other, from its first to its last character
PackagePatternTest(s) ==
    \E i \in 0..Len(s) : \E j \in i..Len(s) :
        /\ MatchesScope(SubSeq(s, 1, i))
        /\ MatchesSegment(SubSeq(s, i + 1, j))
        /\ MatchesVersion(SubSeq(s, j + 1, Len(s)))

MAX_PACKAGE_NAME_LENGTH == 214

validatePackageName(name) ==
    IF name.type # "string" \/ name.chars = <<>> THEN FALSE
    ELSE LET trimmed == Trim(name.chars)
         IN  IF Len(trimmed) = 0 \/ Len(trimmed) > MAX_PACKAGE_NAME_LENGTH
             THEN FALSE
             ELSE PackagePatternTest(trimmed)

\* String(pkg) for a value that is not a string
StringOf(v) ==
    IF v.type = "null" THEN <<"n","u","l","l">>
    ELSE IF v.type = "undefined" THEN <<"u","n","d","e","f","i","n","e","d">>
    ELSE v.chars

\* the for loop of sanitizePackageList over the elements from the i-th on
RECURSIVE SanitizeFrom(_, _, _, _, _)
SanitizeFrom(items, i, valid, invalid, seen) ==
    IF i > Len(items) THEN [valid |-> valid, invalid |-> invalid]
    ELSE LET pkg == items[i]
         IN  IF pkg.type # "string"
             THEN SanitizeFrom(items, i + 1, valid,
                               Append(invalid, StringOf(pkg)), seen)
             ELSE LET trimmed == Trim(pkg.chars)
                  IN  IF trimmed \in seen
                      THEN SanitizeFrom(items, i + 1, valid, invalid, seen)
                      ELSE IF validatePackageName(Str(trimmed))
                      THEN SanitizeFrom(items, i + 1, Append(valid, trimmed),
                                        invalid, seen \cup {trimmed})
                      ELSE SanitizeFrom(items, i + 1, valid,
                                        Append(invalid, trimmed),
                                        seen \cup {trimmed})

\* an array value with the given elements
Arr(items) == [type |-> "array", items |-> items]

sanitizePackageList(pkgs) ==
    IF pkgs.type # "array" THEN [valid |-> <<>>, invalid |-> <<>>]
    ELSE SanitizeFrom(pkgs.items, 1, <<>>, <<>>, {})

\* the result slots before the functions have run
NoNameResult == [done |-> FALSE, value |-> FALSE]
NoListResult == [done |-> FALSE, valid |-> <<>>, invalid |-> <<>>]

\* the longest name the length check lets through
LongestName == [i \in 1..MAX_PACKAGE_NAME_LENGTH |-> "a"]

\* the parts a client writes a package name from
PkgLeads ==
    {<<" ">>,
     <<"\n">>}

PkgScopes ==
    {<<"@","t","y","p","e","s","/">>,
     <<"@","r","a","d","i","x","-","u","i","/">>,
     <<"@",".","t","y","p","e","s","/">>,
     <<"@","_","t","/">>,
     <<"@","~","t","/">>,
     <<"@","T","y","p","e","s","/">>,
     <<"@","/">>,
     <<"@","t","y","p","e","s">>}

PkgNames ==
    {<<"r","e","a","c","t">>,
     <<"r","e","a","c","t","-","d","o","m">>,
     <<"l","o","d","a","s","h",".","x","_","y","~","z">>,
     <<".","h","i","d","d","e","n">>,
     <<"_","p","r","i","v","a","t","e">>,
     <<"~","t","i","l","d","e">>,
     <<"-","d","a","s","h">>,
     <<"4","2">>,
     <<"U","P","P","E","R","C","A","S","E">>,
     <<"r","e","A","c","t">>,
     <<".",".","/",".",".","/",".",".","/","e","t","c","/","p","a","s","s","w","d">>,
     <<";"," ","r","m"," ","-","r","f"," ","/">>,
     <<"r","e"," ","a","c","t">>,
     <<"a","/","b">>,
     LongestName, Append(LongestName, "a")}

PkgVersions ==
    {<<"@","1","8",".","2",".","0">>,
     <<"@","^","1","8",".","0",".","0">>,
     <<"@",">","=","1",".","0",".","0","|","<","2">>,
     <<"@","l","a","t","e","s","t">>,
     <<"@","1",".","0",".","0","-","b","e","t","a","_","1">>,
     <<"@">>,
     <<"@","1"," ","2">>,
     <<"@","1","@","2">>,
     <<"@","*">>,
     <<"@","1","/","2">>}

PkgTrails ==
    {<<" ">>,
     <<"\t">>}

\* the values a JSON body can hold where a package name is expected
PkgNonStrings ==
    {[type |-> "null", chars |-> <<>>],
     [type |-> "undefined", chars |-> <<>>],
     [type |-> "number", chars |-> <<"4","2">>]}

\* the elements of the lists handed to sanitizePackageList
PackageItems ==
    {Str(<<"r","e","a","c","t">>),
     Str(<<" ","r","e","a","c","t">>),
     Str(<<"l","o","d","a","s","h">>),
     Str(<<"4","2">>),
     Str(<<>>),
     Str(<<";"," ","r","m">>),
     Str(<<"r","e","a","c","t","@",">","1","|","<","3">>),
     Str(<<"n","u","l","l">>),
     [type |-> "number", chars |-> <<"4","2">>],
     [type |-> "null", chars |-> <<>>]}

PkgInit ==
    /\ pkgName = Str(<<>>)
    /\ pkgStage = "start"
    /\ pkgNameResult = NoNameResult
    /\ packages = Arr(<<>>)
    /\ pkgListResult = NoListResult

\* the client writes white space in front of the name
PkgWriteLead ==
    /\ ~pkgNameResult.done
    /\ pkgStage = "start"
    /\ \E p \in PkgLeads : pkgName' = Str(pkgName.chars \o p)
    /\ pkgStage' = "lead"
    /\ UNCHANGED <<pkgNameResult, packages, pkgListResult>>

\* the client writes a scope
PkgWriteScope ==
    /\ ~pkgNameResult.done
    /\ pkgStage \in {"start", "lead"}
    /\ \E p \in PkgScopes : pkgName' = Str(pkgName.chars \o p)
    /\ pkgStage' = "scope"
    /\ UNCHANGED <<pkgNameResult, packages, pkgListResult>>

\* the client writes the name
PkgWriteName ==
    /\ ~pkgNameResult.done
    /\ pkgStage \in {"start", "lead", "scope"}
    /\ \E p \in PkgNames : pkgName' = Str(pkgName.chars \o p)
    /\ pkgStage' = "name"
    /\ UNCHANGED <<pkgNameResult, packages, pkgListResult>>

\* the client writes a version specifier
PkgWriteVersion ==
    /\ ~pkgNameResult.done
    /\ pkgStage \in {"start", "lead", "scope", "name"}
    /\ \E p \in PkgVersions : pkgName' = Str(pkgName.chars \o p)
    /\ pkgStage' = "version"
    /\ UNCHANGED <<pkgNameResult, packages, pkgListResult>>

\* the client writes white space after the name
PkgWriteTrail ==
    /\ ~pkgNameResult.done
    /\ pkgStage \in {"name", "version"}
    /\ \E p \in PkgTrails : pkgName' = Str(pkgName.chars \o p)
    /\ pkgStage' = "trail"
    /\ UNCHANGED <<pkgNameResult, packages, pkgListResult>>

\* the client sends a value that is not a string
PkgNonString ==
    /\ ~pkgNameResult.done
    /\ pkgStage = "start"
    /\ \E v \in PkgNonStrings : pkgName' = v
    /\ pkgStage' = "value"
    /\ UNCHANGED <<pkgNameResult, packages, pkgListResult>>

\* validatePackageName(name) is called
PkgValidate ==
    /\ ~pkgNameResult.done
    /\ pkgNameResult' = [done |-> TRUE, value |-> validatePackageName(pkgName)]
    /\ UNCHANGED <<pkgName, pkgStage, packages, pkgListResult>>

\* the client adds an element to the list it sends
PkgListAppend ==
    /\ ~pkgListResult.done
    /\ packages.type = "array"
    /\ Len(packages.items) < MaxPackages
    /\ \E v \in PackageItems : packages' = Arr(Append(packages.items, v))
    /\ UNCHANGED <<pkgName, pkgStage, pkgNameResult, pkgListResult>>

\* the client sends something that is not a list
PkgListNonArray ==
    /\ ~pkgListResult.done
    /\ packages = Arr(<<>>)
    /\ \E v \in PkgNonStrings \cup {Str(<<"r","e","a","c","t">>)} :
           packages' = v
    /\ UNCHANGED <<pkgName, pkgStage, pkgNameResult, pkgListResult>>

\* sanitizePackageList(packages) is called
PkgSanitize ==
    /\ ~pkgListResult.done
    /\ LET r == sanitizePackageList(packages)
       IN  pkgListResult' =
               [done |-> TRUE, valid |-> r.valid, invalid |-> r.invalid]
    /\ UNCHANGED <<pkgName, pkgStage, pkgNameResult, packages>>

-----------------------------------------------------------------------------
(* The rate limiter: checkRateLimit and the background sweep *)

\* Math.max(a, b)
Max(a, b) == IF a >= b THEN a ELSE b

\* timestamps.filter((t) => now - t < horizonMs)
FilterYounger(timestamps, clock, horizonMs) ==
    LET Young(t) == clock - t < horizonMs
    IN  SelectSeq(timestamps, Young)

\* the sweep keeps stamps younger than 300_000 ms
FilterForSweep(timestamps, clock) == FilterYounger(timestamps, clock, 300000)

\* a limiter that takes the newest timestamp for the oldest
NewestInWindow(timestamps, clock) ==
    IF Len(timestamps) > 0 /\ timestamps[Len(timestamps)] # 0
    THEN timestamps[Len(timestamps)] ELSE clock

\* timestamps[0] || now : an empty array gives undefined, and 0 is falsy too
OldestInWindow(timestamps, clock) ==
    IF Len(timestamps) > 0 /\ timestamps[1] # 0 THEN timestamps[1] ELSE clock

\* a store with one bucket for all keys
GetEntryAnyKey(store, key) ==
    IF DOMAIN store # {} THEN store[CHOOSE k \in DOMAIN store : TRUE]
    ELSE <<>>

\* rateLimitStore.get(key), with the lazily created entry when there is none
GetEntry(store, key) == IF key \in DOMAIN store THEN store[key] ELSE <<>>

\* a limiter that records the rejected calls too
checkRateLimitCountsRejected(entry, maxRequests, windowMs, clock) ==
    LET timestamps == FilterYounger(entry, clock, windowMs)
        remaining == Max(0, maxRequests - Len(timestamps))
        oldestInWindow == OldestInWindow(timestamps, clock)
        resetMs == oldestInWindow + windowMs - clock
    IN  IF Len(timestamps) >= maxRequests
        THEN [allowed |-> FALSE, remaining |-> 0, resetMs |-> resetMs,
              timestamps |-> Append(timestamps, clock)]
        ELSE [allowed |-> TRUE, remaining |-> remaining - 1,
              resetMs |-> resetMs, timestamps |-> Append(timestamps, clock)]

\* a limiter that never prunes
checkRateLimitNoPrune(entry, maxRequests, windowMs, clock) ==
    LET timestamps == entry
        remaining == Max(0, maxRequests - Len(timestamps))
        oldestInWindow == OldestInWindow(timestamps, clock)
        resetMs == oldestInWindow + windowMs - clock
    IN  IF Len(timestamps) >= maxRequests
        THEN [allowed |-> FALSE, remaining |-> 0, resetMs |-> resetMs,
              timestamps |-> timestamps]
        ELSE [allowed |-> TRUE, remaining |-> remaining - 1,
              resetMs |-> resetMs, timestamps |-> Append(timestamps, clock)]

\* a limiter that rejects one call too late
checkRateLimitOffByOne(entry, maxRequests, windowMs, clock) ==
    LET timestamps == FilterYounger(entry, clock, windowMs)
        remaining == Max(0, maxRequests - Len(timestamps))
        oldestInWindow == OldestInWindow(timestamps, clock)
        resetMs == oldestInWindow + windowMs - clock
    IN  IF Len(timestamps) > maxRequests
        THEN [allowed |-> FALSE, remaining |-> 0, resetMs |-> resetMs,
              timestamps |-> timestamps]
        ELSE [allowed |-> TRUE, remaining |-> Max(0, remaining - 1),
              resetMs |-> resetMs, timestamps |-> Append(timestamps, clock)]

\* a limiter that reports what remained before the admission
checkRateLimitRemainingBefore(entry, maxRequests, windowMs, clock) ==
    LET timestamps == FilterYounger(entry, clock, windowMs)
        remaining == Max(0, maxRequests - Len(timestamps))
        oldestInWindow == OldestInWindow(timestamps, clock)
        resetMs == oldestInWindow + windowMs - clock
    IN  IF Len(timestamps) >= maxRequests
        THEN [allowed |-> FALSE, remaining |-> 0, resetMs |-> resetMs,
              timestamps |-> timestamps]
        ELSE [allowed |-> TRUE, remaining |-> remaining,
              resetMs |-> resetMs, timestamps |-> Append(timestamps, clock)]

\* the decision checkRateLimit returns and the timestamps it leaves in the
\* key's entry, for the entry it found and the value of Date.now()
checkRateLimit(entry, maxRequests, windowMs, clock) ==
    LET timestamps == FilterYounger(entry, clock, windowMs)
        remaining == Max(0, maxRequests - Len(timestamps))
        oldestInWindow == OldestInWindow(timestamps, clock)
        resetMs == oldestInWindow + windowMs - clock
    IN  IF Len(timestamps) >= maxRequests
        THEN [allowed |-> FALSE, remaining |-> 0, resetMs |-> resetMs,
              timestamps |-> timestamps]
        ELSE [allowed |-> TRUE, remaining |-> remaining - 1,
              resetMs |-> resetMs, timestamps |-> Append(timestamps, clock)]

\* the keys of two clients of one route: `run-command:${clientId}`
Keys == {"run-command:10.1.1.1", "run-command:unknown"}

\* the values of maxRequests and of windowMs the callers pass; one window is
\* the default, the other is longer than the sweep's 300_000 ms
Limits == {1, 2}
Windows == {60000, 600000}

\* the amounts of time that pass between two steps
ClockSteps == {1, 60000, 300000}

SWEEP_INTERVAL_MS == 300000

\* the number of calls made so far on the keys of the set ks
RECURSIVE CallCount(_)
CallCount(ks) ==
    IF ks = {} THEN 0
    ELSE LET k == CHOOSE x \in ks : TRUE
         IN  Len(decisions[k]) + CallCount(ks \ {k})

RateInit ==
    /\ rateLimitStore = << >>
    /\ now = 1
    /\ lastSweep = 1
    /\ ticks = 0
    /\ decisions = [k \in Keys |-> << >>]

\* a route calls checkRateLimit(key, maxRequests, windowMs); a route passes
\* the same limit and window on every call for a key.  The function has no
\* await: the calls of concurrent requests run one after the other, each as
\* one step.
CheckRateLimit(key, maxRequests, windowMs) ==
    /\ CallCount(Keys) < MaxCalls
    /\ decisions[key] # << >> =>
           /\ decisions[key][1].maxRequests = maxRequests
           /\ decisions[key][1].windowMs = windowMs
    /\ LET r == checkRateLimit(GetEntry(rateLimitStore, key), maxRequests,
                               windowMs, now)
       IN  /\ rateLimitStore' =
                  [k \in DOMAIN rateLimitStore \cup {key} |->
                      IF k = key THEN r.timestamps ELSE rateLimitStore[k]]
           /\ decisions' =
                  [decisions EXCEPT ![key] =
                      Append(@, [now |-> now, maxRequests |-> maxRequests,
                                 windowMs |-> windowMs, allowed |-> r.allowed,
                                 remaining |-> r.remaining,
                                 resetMs |-> r.resetMs])]
    /\ UNCHANGED <<now, lastSweep, ticks>>

\* time passes
Tick(d) ==
    /\ ticks < MaxTicks
    /\ now' = now + d
    /\ ticks' = ticks + 1
    /\ UNCHANGED <<rateLimitStore, lastSweep, decisions>>

\* a sweep that prunes the entries and deletes none
SweepKeepsEmpty ==
    /\ now - lastSweep >= SWEEP_INTERVAL_MS
    /\ rateLimitStore' = [k \in DOMAIN rateLimitStore |->
                              FilterForSweep(rateLimitStore[k], now)]
    /\ lastSweep' = now
    /\ UNCHANGED <<now, ticks, decisions>>

\* the setInterval callback: it fires once the interval has elapsed, prunes
\* every entry and deletes the entries that are then empty
Sweep ==
    /\ now - lastSweep >= SWEEP_INTERVAL_MS
    /\ LET swept == [k \in DOMAIN rateLimitStore |->
                        FilterForSweep(rateLimitStore[k], now)]
           kept == {k \in DOMAIN rateLimitStore : Len(swept[k]) # 0}
       IN  rateLimitStore' = [k \in kept |-> swept[k]]
    /\ lastSweep' = now
    /\ UNCHANGED <<now, ticks, decisions>>

-----------------------------------------------------------------------------
(* The API routes: run-command, run-command-v2, scrape-website,             *)
(* scrape-screenshot, scrape-url-enhanced and install-packages-v2.  A       *)
(* handler runs in steps, one for each stretch of code between two awaits:  *)
(* the rate check, then the body with its validation up to the call of the  *)
(* collaborator, then the answer of the collaborator.                       *)

\* request.headers.get(name): null when the header is absent
NoHeader == [type |-> "null", chars |-> <<>>]

\* getClientId(request)
getClientId(headers) ==
    LET forwarded == headers.xForwardedFor
        first == IF forwarded.type = "string"
                 THEN Trim(SplitOn(forwarded.chars, ",")[1])
                 ELSE <<>>
    IN  IF first # <<>> THEN first
        ELSE IF headers.xRealIp.type = "string" /\ headers.xRealIp.chars # <<>>
             THEN headers.xRealIp.chars
        ELSE <<"u","n","k","n","o","w","n">>

\* the headers of the requests of one client behind a proxy
RequestHeaders ==
    {[xForwardedFor |-> Str(<<"1","0",".","1",".","1",".","1">>), xRealIp |-> NoHeader],
     [xForwardedFor |-> Str(<<" ","1","0",".","1",".","1",".","1"," ",","," ","1","0",".","2",".","2",".","2">>), xRealIp |-> NoHeader],
     [xForwardedFor |-> NoHeader, xRealIp |-> Str(<<"1","0",".","1",".","1",".","1">>)]}

\* `${prefix}:${clientId}`
RateKey(prefix, clientId) == prefix \o <<":">> \o clientId

\* safeErrorResponse(error, context)
safeErrorResponse(error, context) ==
    IF error.isError
    THEN [error |-> error.message, context |-> context]
    ELSE [error |-> "An unexpected error occurred.", context |-> context]

\* NextResponse.json(body, { status, headers }): the status, the names of
\* the fields of the body, its error field and the headers set by the route
Response(status, fields, error, headers) ==
    [status |-> status, fields |-> fields, error |-> error,
     headers |-> headers]

NoResponse == Response(0, {}, "", {})

\* nothing handed to a collaborator
NotForwarded == [called |-> FALSE, arg |-> [none |-> TRUE]]

\* no request being served
IdleRequest ==
    [route |-> "none", pc |-> "idle", clientId |-> <<>>,
     rateCheck |-> [allowed |-> FALSE, remaining |-> 0, resetMs |-> 0],
     body |-> NoHeader, ready |-> FALSE, verdict |-> "none",
     forwarded |-> NotForwarded,
     thrown |-> [isError |-> FALSE, message |-> ""],
     response |-> NoResponse]

\* a body request.json() fails on
MalformedJson == [type |-> "malformed", chars |-> <<>>]

\* the values of the command field of a body
CommandBodies ==
    {Str(<<"n","p","m"," ","i","n","s","t","a","l","l"," ","r","e","a","c","t">>),
     Str(<<" ","l","s"," "," ","-","l","a"," ">>),
     Str(<<"c","u","r","l"," ","e","v","i","l",".","s","h">>),
     [type |-> "undefined", chars |-> <<>>],
     MalformedJson}

\* the values of the url field of a body
UrlBodies ==
    {Str(<<"h","t","t","p","s",":","/","/","e","x","a","m","p","l","e",".","c","o","m","/","a">>),
     Str(<<"H","T","T","P","S",":","/","/","E","X","A","M","P","L","E",".","c","o","m">>),
     Str(<<"h","t","t","p",":","/","/","1","0",".","0",".","0",".","1","/">>),
     Str(<<>>),
     MalformedJson}

\* the values of the packages field of a body
PackagesBodies ==
    {Arr(<<Str(<<"r","e","a","c","t">>), Str(<<" ","r","e","a","c","t">>), Str(<<"l","o","d","a","s","h">>)>>),
     Arr(<<Str(<<"r","e","a","c","t">>), Str(<<";"," ","r","m"," ","-","r","f"," ","/">>)>>),
     Arr(<<Str(<<"U","P","P","E","R","C","A","S","E">>), [type |-> "null", chars |-> <<>>]>>),
     Arr(<<>>),
     Str(<<"r","e","a","c","t">>),
     MalformedJson}

\* what a collaborator does with a call: it resolves with a success or with
\* a failure result, or it throws an Error or some other value
CollaboratorOutcomes ==
    {[kind |-> "resolved", success |-> TRUE,
      thrown |-> [isError |-> FALSE, message |-> ""]],
     [kind |-> "resolved", success |-> FALSE,
      thrown |-> [isError |-> FALSE, message |-> ""]],
     [kind |-> "thrown", success |-> FALSE,
      thrown |-> [isError |-> TRUE,
                  message |-> "connect ECONNREFUSED 10.0.0.7:443"]],
     [kind |-> "thrown", success |-> FALSE,
      thrown |-> [isError |-> FALSE, message |-> ""]]}

\* the number of timestamps the store holds
RECURSIVE StoredCount(_, _)
StoredCount(store, ks) ==
    IF ks = {} THEN 0
    ELSE LET k == CHOOSE x \in ks : TRUE
         IN  Len(store[k]) + StoredCount(store, ks \ {k})

\* String(Math.ceil(resetMs / 1000))
RetryAfterValue(resetMs) == NumberToString((resetMs + 999) \div 1000, 10)

\* the header of the 429 of the two command routes
RetryAfterHeader(resetMs) == {<<"Retry-After", RetryAfterValue(resetMs)>>}

\* The first step of every handler: getClientId, checkRateLimit on the key
\* of the route, and the 429 when the request is not allowed.  retryAfter
\* tells whether the route sets the Retry-After header on its 429.
RateLimitStep(route, prefix, maxRequests, windowMs, fields, retryAfter) ==
    /\ req.pc = "idle"
    /\ StoredCount(rateLimitStore, DOMAIN rateLimitStore) < MaxAdmitted
    /\ \E headers \in RequestHeaders :
        LET clientId == getClientId(headers)
            key == RateKey(prefix, clientId)
            r == checkRateLimit(GetEntry(rateLimitStore, key), maxRequests,
                                windowMs, now)
            rateCheck == [allowed |-> r.allowed, remaining |-> r.remaining,
                          resetMs |-> r.resetMs]
            started == [IdleRequest EXCEPT !.route = route,
                                           !.clientId = clientId,
                                           !.rateCheck = rateCheck]
        IN  /\ \/ key \in DOMAIN rateLimitStore
                \/ Cardinality(DOMAIN rateLimitStore) < MaxEntries
            /\ rateLimitStore' =
                   [k \in DOMAIN rateLimitStore \cup {key} |->
                       IF k = key THEN r.timestamps ELSE rateLimitStore[k]]
            /\ req' = IF ~r.allowed
                      THEN [started EXCEPT
                               !.pc = "done",
                               !.response =
                                   Response(429, fields,
                                       "Rate limit exceeded. Try again later.",
                                       IF retryAfter
                                       THEN RetryAfterHeader(r.resetMs)
                                       ELSE {})]
                      ELSE [started EXCEPT !.pc = "json"]
    /\ UNCHANGED <<now, lastSweep, ticks, decisions>>

\* the handler has read the field it uses from the body
Read(r, body) == [r EXCEPT !.body = body]

\* the handler has looked for what its collaborator needs (the sandbox,
\* the API key) and found it or not
Looked(r, ready) == [r EXCEPT !.ready = ready]

\* the handler returns a response
Finish(r, verdict, response) ==
    [r EXCEPT !.pc = "done", !.verdict = verdict, !.response = response]

\* the handler calls its collaborator and awaits it
Forward(r, arg) ==
    [r EXCEPT !.pc = "collaborator", !.verdict = "accepted",
              !.forwarded = [called |-> TRUE, arg |-> arg]]

\* the catch block of a handler answers 500
Caught(r, thrown, fields, error) ==
    [r EXCEPT !.pc = "done", !.thrown = thrown,
              !.response = Response(500, fields, error, {})]

\* the error thrown by request.json() on a malformed body
JsonError == [isError |-> TRUE, message |-> "Unexpected end of JSON input"]

\* run-command: the rate check
RunCommandStart ==
    RateLimitStep("run-command", <<"r","u","n","-","c","o","m","m","a","n","d">>, 20, 60000, {"success", "error"}, TRUE)

\* a run-command that gives the slot back when it answers 400
RunCommandValidateRefunds ==
    /\ req.route = "run-command"
    /\ req.pc = "json"
    /\ \E commandValue \in CommandBodies, activeSandbox \in BOOLEAN :
        LET r == Read(req, commandValue)
            validation == validateCommand(commandValue)
            key == RateKey(<<"r","u","n","-","c","o","m","m","a","n","d">>,
                           req.clientId)
            bucket == rateLimitStore[key]
        IN  /\ req' =
                  IF commandValue = MalformedJson
                  THEN Caught(r, JsonError, {"success", "error"},
                              "Command execution failed.")
                  ELSE IF ~validation.valid
                  THEN Finish(r, "rejected",
                              Response(400, {"success", "error"},
                                       validation.error, {}))
                  ELSE IF ~activeSandbox
                  THEN Finish(Looked(r, FALSE), "accepted",
                              Response(400, {"success", "error"},
                                       "No active sandbox", {}))
                  ELSE Forward(Looked(r, TRUE),
                               [cmd |-> validation.cmd,
                                args |-> validation.args])
            /\ rateLimitStore' =
                  IF req'.response.status = 400
                  THEN [rateLimitStore EXCEPT
                           ![key] = SubSeq(bucket, 1, Len(bucket) - 1)]
                  ELSE rateLimitStore
    /\ UNCHANGED <<now, lastSweep, ticks, decisions>>

\* run-command: the body, validateCommand, the sandbox, runCommand
RunCommandValidate ==
    /\ req.route = "run-command"
    /\ req.pc = "json"
    /\ \E commandValue \in CommandBodies, activeSandbox \in BOOLEAN :
        LET r == Read(req, commandValue)
            validation == validateCommand(commandValue)
        IN  req' =
              IF commandValue = MalformedJson
              THEN Caught(r, JsonError, {"success", "error"},
                          "Command execution failed.")
              ELSE IF ~validation.valid
              THEN Finish(r, "rejected",
                          Response(400, {"success", "error"},
                                   validation.error, {}))
              ELSE IF ~activeSandbox
              THEN Finish(Looked(r, FALSE), "accepted",
                          Response(400, {"success", "error"},
                                   "No active sandbox", {}))
              ELSE Forward(Looked(r, TRUE), [cmd |-> validation.cmd, args |-> validation.args])
    /\ UNCHANGED rateVars

\* run-command: runCommand returns or throws
RunCommandSettle ==
    /\ req.route = "run-command"
    /\ req.pc = "collaborator"
    /\ \E outcome \in CollaboratorOutcomes :
        req' = IF outcome.kind = "thrown"
               THEN Caught(req, outcome.thrown, {"success", "error"},
                           "Command execution failed.")
               ELSE Finish(req, "accepted",
                           Response(200, {"success", "output", "exitCode", "message"}, "", {}))
    /\ UNCHANGED rateVars

\* run-command-v2: the rate check
RunCommandV2Start ==
    RateLimitStep("run-command-v2", <<"r","u","n","-","c","o","m","m","a","n","d","-","v","2">>, 20, 60000, {"success", "error"}, TRUE)

\* run-command-v2: the body, validateCommand, the sandbox, runCommand
RunCommandV2Validate ==
    /\ req.route = "run-command-v2"
    /\ req.pc = "json"
    /\ \E commandValue \in CommandBodies, activeSandbox \in BOOLEAN :
        LET r == Read(req, commandValue)
            validation == validateCommand(commandValue)
        IN  req' =
              IF commandValue = MalformedJson
              THEN Caught(r, JsonError, {"success", "error"},
                          "Command execution failed.")
              ELSE IF ~validation.valid
              THEN Finish(r, "rejected",
                          Response(400, {"success", "error"},
                                   validation.error, {}))
              ELSE IF ~activeSandbox
              THEN Finish(Looked(r, FALSE), "accepted",
                          Response(400, {"success", "error"},
                                   "No active sandbox", {}))
              ELSE Forward(Looked(r, TRUE), commandValue)
    /\ UNCHANGED rateVars

\* run-command-v2: runCommand returns or throws
RunCommandV2Settle ==
    /\ req.route = "run-command-v2"
    /\ req.pc = "collaborator"
    /\ \E outcome \in CollaboratorOutcomes :
        req' = IF outcome.kind = "thrown"
               THEN Caught(req, outcome.thrown, {"success", "error"},
                           "Command execution failed.")
               ELSE Finish(req, "accepted",
                           Response(200, {"success", "output", "error", "exitCode", "message"}, "", {}))
    /\ UNCHANGED rateVars

\* error instanceof Error ? error.message : 'Failed to scrape website'
ScrapeWebsiteCatchMessage(error) ==
    IF error.isError THEN error.message ELSE "Failed to scrape website"

\* scrape-website: the rate check
ScrapeWebsiteStart ==
    RateLimitStep("scrape-website", <<"s","c","r","a","p","e">>, 10, 60000, {"success", "error"}, FALSE)

\* What differs between the three scraping handlers up to the call of the
\* scraper: the fields of the body of the 400s, the 503 without an API key,
\* and the 500 of the catch block for a body request.json() fails on.
ScrapeHandlers ==
    [route \in {"scrape-website", "scrape-screenshot", "scrape-url-enhanced"} |->
        CASE route = "scrape-website" ->
                 [fields |-> {"error"},
                  unconfigured |->
                      Response(503, {"success", "error"},
                               "Scraping service is not configured.", {}),
                  caughtFields |-> {"success", "error"},
                  caughtError |-> ScrapeWebsiteCatchMessage(JsonError)]
          [] route = "scrape-screenshot" ->
                 [fields |-> {"error"},
                  unconfigured |->
                      Response(503, {"error"},
                               "Firecrawl API key not configured", {}),
                  caughtFields |-> {"error"},
                  caughtError |-> "Failed to capture screenshot."]
          [] route = "scrape-url-enhanced" ->
                 [fields |-> {"success", "error"},
                  unconfigured |->
                      Response(503, {"success", "error"},
                               "Scraping service is not configured.", {}),
                  caughtFields |-> {"success", "error"},
                  caughtError |-> "An error occurred while scraping."]]

\* handlers that hand the URL to the scraper without validating it
ScrapeValidateUnchecked ==
    /\ req.route \in DOMAIN ScrapeHandlers
    /\ req.pc = "json"
    /\ \E url \in UrlBodies, apiKey \in BOOLEAN :
        LET r == Read(req, url)
            handler == ScrapeHandlers[req.route]
        IN  req' =
              IF url = MalformedJson
              THEN Caught(r, JsonError, handler.caughtFields,
                          handler.caughtError)
              ELSE IF url.type # "string" \/ url.chars = <<>>
              THEN Finish(r, "none",
                          Response(400, handler.fields, "URL is required", {}))
              ELSE IF ~apiKey
              THEN Finish(Looked(r, FALSE), "accepted", handler.unconfigured)
              ELSE Forward(Looked(r, TRUE), url)
    /\ UNCHANGED rateVars

\* scrape-website, scrape-screenshot and scrape-url-enhanced: the body,
\* validateUrl, the API key, the scrape
ScrapeValidate ==
    /\ req.route \in DOMAIN ScrapeHandlers
    /\ req.pc = "json"
    /\ \E url \in UrlBodies, apiKey \in BOOLEAN :
        LET r == Read(req, url)
            handler == ScrapeHandlers[req.route]
            urlValidation == validateUrl(url.chars)
        IN  req' =
              IF url = MalformedJson
              THEN Caught(r, JsonError, handler.caughtFields,
                          handler.caughtError)
              ELSE IF url.type # "string" \/ url.chars = <<>>
              THEN Finish(r, "none",
                          Response(400, handler.fields, "URL is required", {}))
              ELSE IF ~urlValidation.valid
              THEN Finish(r, "rejected",
                          Response(400, handler.fields, urlValidation.error, {}))
              ELSE IF ~apiKey
              THEN Finish(Looked(r, FALSE), "accepted", handler.unconfigured)
              ELSE Forward(Looked(r, TRUE), url)
    /\ UNCHANGED rateVars

\* scrape-website: the scrape returns or throws
ScrapeWebsiteSettle ==
    /\ req.route = "scrape-website"
    /\ req.pc = "collaborator"
    /\ \E outcome \in CollaboratorOutcomes :
        req' = IF outcome.kind = "thrown"
               THEN Caught(req, outcome.thrown, {"success", "error"},
                           ScrapeWebsiteCatchMessage(outcome.thrown))
               ELSE IF ~outcome.success
               THEN Finish(req, "accepted",
                           Response(502, {"success", "error"}, "Failed to scrape website.", {}))
               ELSE Finish(req, "accepted",
                           Response(200, {"success", "data"}, "", {}))
    /\ UNCHANGED rateVars

\* scrape-screenshot: the rate check
ScrapeScreenshotStart ==
    RateLimitStep("scrape-screenshot", <<"s","c","r","a","p","e">>, 10, 60000, {"error"}, FALSE)

\* scrape-screenshot: the scrape returns or throws
ScrapeScreenshotSettle ==
    /\ req.route = "scrape-screenshot"
    /\ req.pc = "collaborator"
    /\ \E outcome \in CollaboratorOutcomes :
        req' = IF outcome.kind = "thrown"
               THEN Caught(req, outcome.thrown, {"error"},
                           "Failed to capture screenshot.")
               ELSE IF ~outcome.success
               THEN Finish(req, "accepted",
                           Response(502, {"error"}, "Failed to capture screenshot.", {}))
               ELSE Finish(req, "accepted",
                           Response(200, {"success", "screenshot", "metadata"}, "", {}))
    /\ UNCHANGED rateVars

\* scrape-url-enhanced: the rate check
ScrapeUrlEnhancedStart ==
    RateLimitStep("scrape-url-enhanced", <<"s","c","r","a","p","e">>, 10, 60000, {"success", "error"}, FALSE)

\* scrape-url-enhanced: the scrape returns or throws
ScrapeUrlEnhancedSettle ==
    /\ req.route = "scrape-url-enhanced"
    /\ req.pc = "collaborator"
    /\ \E outcome \in CollaboratorOutcomes :
        req' = IF outcome.kind = "thrown"
               THEN Caught(req, outcome.thrown, {"success", "error"},
                           "An error occurred while scraping.")
               ELSE IF ~outcome.success
               THEN Finish(req, "accepted",
                           Response(502, {"success", "error"}, "Failed to scrape the requested URL.", {}))
               ELSE Finish(req, "accepted",
                           Response(200, {"success", "url", "content", "screenshot", "structured", "metadata"}, "", {}))
    /\ UNCHANGED rateVars

\* install-packages-v2: the rate check
InstallPackagesStart ==
    RateLimitStep("install-packages-v2", <<"i","n","s","t","a","l","l","-","p","a","c","k","a","g","e","s">>, 5, 60000,
                  {"success", "error"}, FALSE)

\* the body of the 500 of install-packages-v2: (error as Error).message is
\* undefined for a value that is no Error, and JSON leaves the field out
InstallPackagesCaught(r, thrown) ==
    IF thrown.isError
    THEN Caught(r, thrown, {"success", "error"}, thrown.message)
    ELSE Caught(r, thrown, {"success"}, "")

\* a handler that fails the request when a name is invalid
InstallPackagesValidateStrict ==
    /\ req.route = "install-packages-v2"
    /\ req.pc = "json"
    /\ \E pkgs \in PackagesBodies, provider \in BOOLEAN :
        LET r == Read(req, pkgs)
            sanitized == sanitizePackageList(pkgs)
        IN  req' =
              IF pkgs = MalformedJson
              THEN InstallPackagesCaught(r, JsonError)
              ELSE IF pkgs.type # "array" \/ Len(pkgs.items) = 0
              THEN Finish(r, "none",
                          Response(400, {"success", "error"},
                                   "Packages array is required", {}))
              ELSE IF Len(sanitized.valid) = 0 \/ Len(sanitized.invalid) > 0
              THEN Finish(r, "rejected",
                          Response(400, {"success", "error"},
                                   "No valid package names provided", {}))
              ELSE IF ~provider
              THEN Finish(Looked(r, FALSE), "accepted",
                          Response(400, {"success", "error"},
                                   "No active sandbox", {}))
              ELSE Forward(Looked(r, TRUE), [packages |-> sanitized.valid])
    /\ UNCHANGED rateVars

\* install-packages-v2: the body, sanitizePackageList, the sandbox,
\* installPackages
InstallPackagesValidate ==
    /\ req.route = "install-packages-v2"
    /\ req.pc = "json"
    /\ \E pkgs \in PackagesBodies, provider \in BOOLEAN :
        LET r == Read(req, pkgs)
            sanitized == sanitizePackageList(pkgs)
        IN  req' =
              IF pkgs = MalformedJson
              THEN InstallPackagesCaught(r, JsonError)
              ELSE IF pkgs.type # "array" \/ Len(pkgs.items) = 0
              THEN Finish(r, "none",
                          Response(400, {"success", "error"},
                                   "Packages array is required", {}))
              ELSE IF Len(sanitized.valid) = 0
              THEN Finish(r, "rejected",
                          Response(400, {"success", "error"},
                                   "No valid package names provided", {}))
              ELSE IF ~provider
              THEN Finish(Looked(r, FALSE), "accepted",
                          Response(400, {"success", "error"},
                                   "No active sandbox", {}))
              ELSE Forward(Looked(r, TRUE), [packages |-> sanitized.valid])
    /\ UNCHANGED rateVars

\* install-packages-v2: installPackages returns or throws
InstallPackagesSettle ==
    /\ req.route = "install-packages-v2"
    /\ req.pc = "collaborator"
    /\ \E outcome \in CollaboratorOutcomes :
        req' = IF outcome.kind = "thrown"
               THEN InstallPackagesCaught(req, outcome.thrown)
               ELSE Finish(req, "accepted",
                           Response(200, {"success", "output", "error",
                                          "message"}, "", {}))
    /\ UNCHANGED rateVars

\* the response is sent and the handler returns
RequestDone ==
    /\ req.pc = "done"
    /\ req' = IdleRequest
    /\ only400' = (only400 /\ (req.rateCheck.allowed =>
                                   req.response.status = 400))
    /\ UNCHANGED rateVars

RouteInit == req = IdleRequest /\ only400 = TRUE

-----------------------------------------------------------------------------
(* Specifications *)

Init ==
    CmdInit /\ PathInit /\ UrlInit /\ RateInit /\ PkgInit /\ RouteInit

\* what the command validator leaves alone
cmdFrame == <<pathVars, urlVars, rateVars, pkgVars, routeVars>>

CmdNext ==
    \/ CmdAppend /\ UNCHANGED cmdFrame
    \/ CmdPad /\ UNCHANGED cmdFrame
    \/ CmdNonString /\ UNCHANGED cmdFrame
    \/ CmdValidate /\ UNCHANGED cmdFrame

\* the command validator applied to every assembled input
SpecCommand == Init /\ [][CmdNext]_vars

\* what the path validator leaves alone
pathFrame == <<cmdVars, urlVars, rateVars, pkgVars, routeVars>>

PathNext ==
    \/ PathAppend /\ UNCHANGED pathFrame
    \/ PathChooseBase /\ UNCHANGED pathFrame
    \/ PathNonString /\ UNCHANGED pathFrame
    \/ PathValidate /\ UNCHANGED pathFrame

\* the path validator applied to every assembled input
SpecPath == Init /\ [][PathNext]_vars

\* what the URL validator leaves alone
urlFrame == <<cmdVars, pathVars, rateVars, pkgVars, routeVars>>

UrlNext ==
    \/ UrlWritePrefix /\ UNCHANGED urlFrame
    \/ UrlWriteCredentials /\ UNCHANGED urlFrame
    \/ UrlWriteHost /\ UNCHANGED urlFrame
    \/ UrlWritePort /\ UNCHANGED urlFrame
    \/ UrlWritePath /\ UNCHANGED urlFrame
    \/ UrlValidate /\ UNCHANGED urlFrame

\* the URL validator applied to every assembled input
SpecUrl == Init /\ [][UrlNext]_vars

\* the rate limiter under its callers, the clock and the sweep timer
rateFrame == <<cmdVars, pathVars, urlVars, pkgVars, routeVars>>

RateNext ==
    \/ /\ \E key \in Keys, maxRequests \in Limits, windowMs \in Windows :
              CheckRateLimit(key, maxRequests, windowMs)
       /\ UNCHANGED rateFrame
    \/ /\ \E d \in ClockSteps : Tick(d)
       /\ UNCHANGED rateFrame
    \/ /\ Sweep
       /\ UNCHANGED rateFrame

SpecRate == Init /\ [][RateNext]_vars

\* validatePackageName applied to the names a client can write
pkgFrame == <<cmdVars, pathVars, urlVars, rateVars, routeVars>>

PkgNameNext ==
    \/ PkgWriteLead /\ UNCHANGED pkgFrame
    \/ PkgWriteScope /\ UNCHANGED pkgFrame
    \/ PkgWriteName /\ UNCHANGED pkgFrame
    \/ PkgWriteVersion /\ UNCHANGED pkgFrame
    \/ PkgWriteTrail /\ UNCHANGED pkgFrame
    \/ PkgNonString /\ UNCHANGED pkgFrame
    \/ PkgValidate /\ UNCHANGED pkgFrame

SpecPackageName == Init /\ [][PkgNameNext]_vars

\* sanitizePackageList applied to the lists a client can send
PkgListNext ==
    \/ PkgListAppend /\ UNCHANGED pkgFrame
    \/ PkgListNonArray /\ UNCHANGED pkgFrame
    \/ PkgSanitize /\ UNCHANGED pkgFrame

SpecPackageList == Init /\ [][PkgListNext]_vars

\* the routes serving the requests of a client
routeFrame == <<cmdVars, pathVars, urlVars, pkgVars, only400>>

RouteNext ==
    \/ RunCommandStart /\ UNCHANGED routeFrame
    \/ RunCommandValidate /\ UNCHANGED routeFrame
    \/ RunCommandSettle /\ UNCHANGED routeFrame
    \/ RunCommandV2Start /\ UNCHANGED routeFrame
    \/ RunCommandV2Validate /\ UNCHANGED routeFrame
    \/ RunCommandV2Settle /\ UNCHANGED routeFrame
    \/ ScrapeWebsiteStart /\ UNCHANGED routeFrame
    \/ ScrapeWebsiteSettle /\ UNCHANGED routeFrame
    \/ ScrapeScreenshotStart /\ UNCHANGED routeFrame
    \/ ScrapeScreenshotSettle /\ UNCHANGED routeFrame
    \/ ScrapeUrlEnhancedStart /\ UNCHANGED routeFrame
    \/ ScrapeValidate /\ UNCHANGED routeFrame
    \/ ScrapeUrlEnhancedSettle /\ UNCHANGED routeFrame
    \/ InstallPackagesStart /\ UNCHANGED routeFrame
    \/ InstallPackagesValidate /\ UNCHANGED routeFrame
    \/ InstallPackagesSettle /\ UNCHANGED routeFrame
    \/ RequestDone /\ UNCHANGED <<cmdVars, pathVars, urlVars, pkgVars>>

SpecRoute == Init /\ [][RouteNext]_vars

-----------------------------------------------------------------------------
(* Claims about the command validator, checked under SpecCommand *)

\* validateCommand has returned a verdict for command
CmdValidated == cmdResult # NoResult

\* the first white-space-delimited token of a trimmed string
FirstToken(t) ==
    LET ws == {i \in 1..Len(t) : t[i] \in WhiteSpaceChars}
    IN  IF ws = {} THEN t
        ELSE SubSeq(t, 1, (CHOOSE i \in ws : \A j \in ws : i <= j) - 1)

\* t with every run of white space replaced by one space
RECURSIVE CollapseWhiteSpace(_)
CollapseWhiteSpace(t) ==
    IF t = <<>> THEN <<>>
    ELSE IF Head(t) \in WhiteSpaceChars
         THEN IF Len(t) > 1 /\ t[2] \in WhiteSpaceChars
              THEN CollapseWhiteSpace(Tail(t))
              ELSE <<" ">> \o CollapseWhiteSpace(Tail(t))
         ELSE <<Head(t)>> \o CollapseWhiteSpace(Tail(t))

\* C3: every string that contains one of ; | & $ or a backtick is rejected,
\* whatever its first token is.
C3_MetacharactersRejected ==
    (/\ CmdValidated
     /\ command.type = "string"
     /\ \E i \in 1..Len(command.chars) :
            command.chars[i] \in {";", "|", "&", "$", "BACKTICK"})
    => cmdResult.valid = FALSE

\* C3 witness: a command whose first token is the allowed executable ls and
\* which holds a dollar sign has been rejected for the deny-list pattern.
C3_Witness ==
    /\ CmdValidated
    /\ command.type = "string"
    /\ FirstToken(Trim(command.chars)) = <<"l", "s">>
    /\ \E i \in 1..Len(command.chars) : command.chars[i] = "$"
    /\ cmdResult.valid = FALSE
    /\ cmdResult.error = "blocked_pattern"

\* C4: an input whose first white-space-delimited token, after trimming, is
\* not an entry of ALLOWED_COMMANDS is rejected; every accepted verdict has
\* cmd in ALLOWED_COMMANDS.
C4_UnlistedExecutableRejected ==
    CmdValidated =>
        /\ (command.type = "string"
            /\ FirstToken(Trim(command.chars)) \notin ALLOWED_COMMANDS)
           => cmdResult.valid = FALSE
        /\ cmdResult.valid => cmdResult.cmd \in ALLOWED_COMMANDS

\* C4 witness: an input that matches no deny-list pattern and starts with
\* an unknown executable has been rejected as not allowed.
C4_Witness ==
    /\ CmdValidated
    /\ command.type = "string"
    /\ FirstToken(Trim(command.chars)) = <<"b", "a", "s", "h">>
    /\ Len(Trim(command.chars)) > 4
    /\ cmdResult.valid = FALSE
    /\ cmdResult.error = "not_allowed"

\* C5: an accepted verdict holds the first token of the trimmed input as cmd
\* and the remaining tokens, in order, unmodified and none empty, as args:
\* joined with single spaces they give the trimmed input with every run of
\* white space collapsed to one space.
C5_TokensVerbatim ==
    (CmdValidated /\ cmdResult.valid) =>
        LET trimmed == Trim(command.chars)
        IN  /\ cmdResult.cmd = FirstToken(trimmed)
            /\ \A i \in 1..Len(cmdResult.args) :
                   /\ cmdResult.args[i] # <<>>
                   /\ \A j \in 1..Len(cmdResult.args[i]) :
                          cmdResult.args[i][j] \notin WhiteSpaceChars
            /\ JoinSpace(<<cmdResult.cmd>> \o cmdResult.args)
                 = CollapseWhiteSpace(trimmed)

\* C5 witness: "npm a<TAB><SP>-b" has been accepted with cmd npm and the two
\* arguments a and -b, the second one after a run of two white-space
\* characters.
C5_Witness ==
    /\ CmdValidated
    /\ cmdResult.valid
    /\ command.chars = <<"n", "p", "m", " ", "a", "\t", " ", "-", "b">>
    /\ cmdResult.cmd = <<"n", "p", "m">>
    /\ cmdResult.args = << <<"a">>, <<"-", "b">> >>

-----------------------------------------------------------------------------
(* Claims about the path validator, checked under SpecPath *)

\* validateSandboxPath has returned a verdict for path
PathValidated == pathResult # NoResult

\* p names root itself or something below it
InsideRoot(p, root) ==
    \/ p = root
    \/ StartsWith(p, root \o <<"/">>)

\* C9: every string that holds two dots in a row anywhere, or a null byte,
\* is rejected, whatever the rest of the string and allowedBase are.
C9_TraversalAndNullRejected ==
    (/\ PathValidated
     /\ path.type = "string"
     /\ \/ \E i \in 1..(Len(path.chars) - 1) :
               path.chars[i] = "." /\ path.chars[i + 1] = "."
        \/ \E i \in 1..Len(path.chars) : path.chars[i] = "NUL")
    => pathResult.valid = FALSE

\* C9 witness: a path that starts with the allowed base and ends in two dots
\* (with no slash around them) has been rejected as a traversal.
C9_Witness ==
    /\ PathValidated
    /\ path.type = "string"
    /\ path.chars = allowedBase \o <<".", ".">>
    /\ pathResult.valid = FALSE
    /\ pathResult.error = "traversal"

\* C10: every accepted path is an allowed root (allowedBase or
\* /vercel/sandbox) or that root followed by "/" and further segments.
C10_AcceptedInsideRoot ==
    (PathValidated /\ pathResult.valid) =>
        \/ InsideRoot(pathResult.normalizedPath, allowedBase)
        \/ InsideRoot(pathResult.normalizedPath, VERCEL_SANDBOX_ROOT)

-----------------------------------------------------------------------------
(* Claims about the URL validator, checked under SpecUrl *)

\* validateUrl has returned a verdict for urlInput
UrlValidated == urlResult # NoResult

\* the input is a URL of scheme http or https
IsHttpUrl(input) ==
    /\ ParseURL(input).ok
    /\ ParseURL(input).protocol \in {<<"h","t","t","p",":">>, <<"h","t","t","p","s",":">>}

\* the host is an IPv4 address in 10.0.0.0/8, 172.16.0.0/12 or
\* 192.168.0.0/16
IsPrivateIPv4(host) ==
    /\ host.kind = "ipv4"
    /\ \/ host.bytes[1] = 10
       \/ host.bytes[1] = 172 /\ host.bytes[2] \in 16..31
       \/ host.bytes[1] = 192 /\ host.bytes[2] = 168

\* the names and addresses the claim lists
ListedHostnames ==
    {<<"l","o","c","a","l","h","o","s","t">>,
     <<"1","2","7",".","0",".","0",".","1">>,
     <<"0",".","0",".","0",".","0">>,
     <<"1","6","9",".","2","5","4",".","1","6","9",".","2","5","4">>,
     <<"m","e","t","a","d","a","t","a",".","g","o","o","g","l","e",".","i","n","t","e","r","n","a","l">>}

\* C6: every http/https URL whose hostname is an IPv4 address of the form
\* 10.x.x.x, 172.16-31.x.x or 192.168.x.x, or equals, ignoring case,
\* localhost, 127.0.0.1, 0.0.0.0, 169.254.169.254 or
\* metadata.google.internal, is rejected on any port and path; and
\* https://example.com is accepted with hostname example.com.
C6_PrivateHostsRejected ==
    UrlValidated =>
        /\ (/\ IsHttpUrl(urlInput)
            /\ \/ IsPrivateIPv4(ParseURL(urlInput).host)
               \/ ToLowerCase(ParseURL(urlInput).hostname) \in ListedHostnames)
           => urlResult.valid = FALSE
        /\ urlInput = <<"h","t","t","p","s",":","/","/","e","x","a","m","p","l","e",".","c","o","m">>
           => /\ urlResult.valid
              /\ urlResult.url.hostname = <<"e","x","a","m","p","l","e",".","c","o","m">>

\* C6 witness: http://example.com@172.31.255.255:3000/ with a path, whose
\* host is the last address of 172.16.0.0/12, has been rejected as a
\* private network address.
C6_Witness ==
    /\ UrlValidated
    /\ urlInput = <<"h","t","t","p",":","/","/","e","x","a","m","p","l","e",".","c","o","m","@","1","7","2",".","3","1",".","2","5","5",".","2","5","5",":","3","0","0","0","/","a","?","b","#","c">>
    /\ urlResult.valid = FALSE
    /\ urlResult.error = "private_network"

\* the host is an IPv6 address in fc00::/7, in fe80::/10, or ::1
IsInternalIPv6(host) ==
    /\ host.kind = "ipv6"
    /\ \/ host.groups[1] \div 512 = 126
       \/ host.groups[1] \div 64 = 1018
       \/ host.groups = <<0, 0, 0, 0, 0, 0, 0, 1>>

\* C7: every http/https URL whose host is an IPv6 literal in the
\* unique-local range fc00::/7 or the link-local range fe80::/10, or is the
\* IPv6 loopback ::1, is rejected.
C7_InternalIPv6Rejected ==
    (UrlValidated /\ IsHttpUrl(urlInput) /\ IsInternalIPv6(ParseURL(urlInput).host))
    => urlResult.valid = FALSE

\* C8: an input that does not parse is rejected for its format; a parsed
\* URL whose protocol is not http or https is rejected for its protocol,
\* with the scheme named, even when its host is a blocked one; only http
\* and https URLs reach the hostname checks.
C8_ParseProtocolHostnameOrder ==
    UrlValidated =>
        /\ ~ParseURL(urlInput).ok
           => urlResult.valid = FALSE /\ urlResult.error = "invalid_format"
        /\ (ParseURL(urlInput).ok /\ ~IsHttpUrl(urlInput))
           => /\ urlResult.valid = FALSE
              /\ urlResult.error = "invalid_protocol"
              /\ urlResult.detail = ParseURL(urlInput).protocol
        /\ (urlResult.valid \/ urlResult.error \in {"blocked_host", "private_network"})
           => IsHttpUrl(urlInput)

\* C8 witness: ftp://127.0.0.1, whose host is a blocked one, has been
\* rejected for its protocol ftp:.
C8_Witness ==
    /\ UrlValidated
    /\ urlInput = <<"f","t","p",":","/","/","1","2","7",".","0",".","0",".","1">>
    /\ urlResult.valid = FALSE
    /\ urlResult.error = "invalid_protocol"
    /\ urlResult.detail = <<"f", "t", "p", ":">>

-----------------------------------------------------------------------------
(* Claims about the rate limiter *)

\* the number of calls among the first j calls on key that were admitted
Admitted(key, j) == Cardinality({i \in 1..j : decisions[key][i].allowed})

\* the first j calls on key all fall within one window of the first of them
\* (the bucket of a key is empty before its first call)
WithinOneWindow(key, j) ==
    /\ j \in 1..Len(decisions[key])
    /\ decisions[key][j].now - decisions[key][1].now
           < decisions[key][1].windowMs

C2_BoundaryThenReadmitted ==
    \A key \in Keys : \A j \in 1..Len(decisions[key]) :
        LET N == decisions[key][1].maxRequests
            W == decisions[key][1].windowMs
            d == decisions[key][j]
        IN  /\ (WithinOneWindow(key, j) /\ j <= N) => d.allowed
            /\ (WithinOneWindow(key, j) /\ j = N + 1) =>
                   (~d.allowed /\ d.remaining = 0)
            /\ (j > 1 /\ d.now - decisions[key][j - 1].now > W) =>
                   (d.allowed /\ d.remaining = N - 1)


-----------------------------------------------------------------------------
(* Claims about the package-name validators *)

PkgNameValidated == pkgNameResult.done

\* s read as "@scope/" (when it starts with "@" and holds a "/"), a name up
\* to the next "@", and what follows that "@"
PackageParts(s) ==
    LET slash == IF s # <<>> /\ s[1] = "@" THEN IndexOf(s, "/") ELSE 0
        rest  == From(s, slash + 1)
        at    == IndexOf(rest, "@")
    IN  [hasScope   |-> slash > 0,
         scope      |-> SubSeq(s, 2, slash - 1),
         name       |-> IF at = 0 THEN rest ELSE SubSeq(rest, 1, at - 1),
         hasVersion |-> at > 0,
         version    |-> IF at = 0 THEN <<>> ELSE From(rest, at + 1)]

\* a non-empty string whose first character is in first and whose other
\* characters are in rest
MadeOf(x, first, rest) ==
    /\ x # <<>>
    /\ x[1] \in first
    /\ \A i \in 2..Len(x) : x[i] \in rest

\* s follows the grammar [@scope/]name[@version] over the given characters
FollowsGrammar(s, first, rest, versionChars) ==
    LET p == PackageParts(s)
    IN  /\ p.hasScope => MadeOf(p.scope, first, rest)
        /\ MadeOf(p.name, first, rest)
        /\ p.hasVersion => MadeOf(p.version, versionChars, versionChars)

NameChars == LowerAlpha \cup Digits \cup {"-", ".", "_", "~"}
NameStartChars == LowerAlpha \cup Digits \cup {"-", "~"}
RangeChars == Digits \cup {".", "^", "~", ">", "=", "<", "|"}
VersionChars ==
    LowerAlpha \cup UpperAlpha \cup Digits
        \cup {"_", ".", "^", "~", ">", "=", "<", "|", "-"}

\* C11 (amended): validatePackageName returns true exactly for the strings
\* that, once the white space around them is trimmed, have 1 to 214
\* characters and follow the grammar: an optional scope "@scope/", a name,
\* both starting with a lower-case letter, a digit, "-" or "~" and going on
\* with lower-case letters, digits, "-", ".", "_", "~", then optionally "@"
\* and one or more of letters, digits, "_", ".", "^", "~", ">", "=", "<",
\* "|", "-"; it returns false for every other input.
C11_PackageGrammarAfterTrim ==
    PkgNameValidated =>
        (pkgNameResult.value <=>
            /\ pkgName.type = "string"
            /\ Len(Trim(pkgName.chars)) \in 1..214
            /\ FollowsGrammar(Trim(pkgName.chars), NameStartChars, NameChars,
                              VersionChars))

\* C11 witness: a scoped name with a dist-tag and a leading space has been
\* accepted.
C11_Witness ==
    /\ PkgNameValidated
    /\ pkgName = Str(<<" ","@","t","y","p","e","s","/","r","e","a","c","t",
                       "@","l","a","t","e","s","t">>)
    /\ pkgNameResult.value

\* C11 as stated: true exactly for the strings of at most 214 characters
\* made of an optional scope and a name over lower-case letters, digits,
\* "-", ".", "_", "~", and an optional "@" with a specifier over digits,
\* dots and ^ ~ > = < |.
C11_PackageGrammarAsStated ==
    PkgNameValidated =>
        (pkgNameResult.value <=>
            /\ pkgName.type = "string"
            /\ Len(pkgName.chars) <= 214
            /\ FollowsGrammar(pkgName.chars, NameChars, NameChars, RangeChars))


PkgListSanitized == pkgListResult.done

\* no element of the list q occurs twice
NoRepeats(q) == \A i, j \in 1..Len(q) : q[i] = q[j] => i = j

\* the elements of q without the later copies of an element
RECURSIVE FirstSeen(_)
FirstSeen(q) ==
    IF q = <<>> THEN <<>>
    ELSE LET front == SubSeq(q, 1, Len(q) - 1)
             last  == q[Len(q)]
         IN  IF \E i \in 1..Len(front) : front[i] = last
             THEN FirstSeen(front)
             ELSE Append(FirstSeen(front), last)

\* the text of each value of q: the string itself, String(v) for the others
Texts(q) ==
    [i \in 1..Len(q) |-> IF q[i].type = "string" THEN q[i].chars
                         ELSE StringOf(q[i])]

PassesValidation(v) == validatePackageName(v)
FailsValidation(v) == ~validatePackageName(v)

\* C12: for a list, valid and invalid hold no element twice and share no
\* element; valid is the distinct inputs that pass validatePackageName and
\* invalid the distinct inputs that fail it, each in first-seen order; for a
\* value that is not a list both are empty.
C12_DedupedPartition ==
    PkgListSanitized =>
        IF packages.type = "array"
        THEN LET distinct == FirstSeen(packages.items)
             IN  /\ NoRepeats(pkgListResult.valid)
                 /\ NoRepeats(pkgListResult.invalid)
                 /\ \A i \in 1..Len(pkgListResult.valid) :
                        \A j \in 1..Len(pkgListResult.invalid) :
                            pkgListResult.valid[i] # pkgListResult.invalid[j]
                 /\ pkgListResult.valid =
                        Texts(SelectSeq(distinct, PassesValidation))
                 /\ pkgListResult.invalid =
                        Texts(SelectSeq(distinct, FailsValidation))
        ELSE /\ pkgListResult.valid = <<>>
             /\ pkgListResult.invalid = <<>>


-----------------------------------------------------------------------------
(* Claims about the routes *)

CommandRoutes == {"run-command", "run-command-v2"}

ScrapeRoutes == {"scrape-website", "scrape-screenshot", "scrape-url-enhanced"}

InstallRoutes == {"install-packages-v2"}

\* the validator of the route accepts the field the handler read
ValidatorAccepts(route, body) ==
    CASE route \in CommandRoutes ->
             body.type = "string" /\ validateCommand(body).valid
      [] route \in ScrapeRoutes ->
             body.type = "string" /\ validateUrl(body.chars).valid
      [] route \in InstallRoutes ->
             body.type = "array" /\ sanitizePackageList(body).valid # <<>>
      [] OTHER -> FALSE

\* C13: in each of the six routes the rate limiter runs before the
\* validator, the collaborator is called for a request only after
\* checkRateLimit returned allowed = true and the validator accepted the
\* input, and a request rejected by either step never reaches the
\* collaborator.  (The validator's verdict is compared at the call: the
\* handler's locals do not change afterwards.)
C13_CollaboratorAfterBothChecks ==
    /\ req.verdict # "none" => req.rateCheck.allowed
    /\ req.forwarded.called =>
           /\ req.rateCheck.allowed
           /\ req.verdict = "accepted"
    /\ req.pc = "collaborator" =>
           /\ req.forwarded.called
           /\ ValidatorAccepts(req.route, req.body)
    /\ (req.response.status = 429 \/ req.verdict = "rejected") =>
           ~req.forwarded.called

\* the last request the limit of the scraping routes admits is handed to
\* the scraper after validateUrl accepted its URL
C13_Witness ==
    /\ req.route = "scrape-screenshot"
    /\ req.pc = "collaborator"
    /\ req.forwarded.called
    /\ req.rateCheck.allowed
    /\ req.rateCheck.remaining = 0
    /\ req.verdict = "accepted"

\* C14: in every route that takes a command string, the value handed to
\* runCommand is the cmd and the args returned by validateCommand, never the
\* raw string of the client.
C14_ValidatedPairForwarded ==
    (req.route \in CommandRoutes /\ req.forwarded.called) =>
        LET validation == validateCommand(req.body)
        IN  /\ req.forwarded.arg # req.body
            /\ req.forwarded.arg =
                   [cmd |-> validation.cmd, args |-> validation.args]

\* C15: in every scraping route, the value handed to the scraper is the url
\* of the verdict of validateUrl, not the raw string of the client.
C15_ValidatedUrlForwarded ==
    (req.route \in ScrapeRoutes /\ req.forwarded.called) =>
        /\ req.forwarded.arg # req.body
        /\ req.forwarded.arg = validateUrl(req.body.chars).url

\* the clients the requests come from
Clients == {getClientId(headers) : headers \in RequestHeaders}

\* the number of admissions of a client on a key in the 60,000 ms before
\* now: an admission is a timestamp of the key's entry
AdmittedOn(prefix, clientId) ==
    Len(FilterYounger(GetEntry(rateLimitStore, RateKey(prefix, clientId)),
                      now, 60000))

\* the admissions of a client on the routes of a class, each key counted
\* once
RECURSIVE AdmittedInClass(_, _)
AdmittedInClass(prefixes, clientId) ==
    IF prefixes = {} THEN 0
    ELSE LET prefix == CHOOSE p \in prefixes : TRUE
         IN  AdmittedOn(prefix, clientId)
                 + AdmittedInClass(prefixes \ {prefix}, clientId)

CommandKeys ==
    {<<"r","u","n","-","c","o","m","m","a","n","d">>,
     <<"r","u","n","-","c","o","m","m","a","n","d","-","v","2">>}

ScrapeKeys == {<<"s","c","r","a","p","e">>}

InstallKeys ==
    {<<"i","n","s","t","a","l","l","-","p","a","c","k","a","g","e","s">>}

\* C16: for every client, the requests admitted within 60,000 ms are at most
\* 20 on the command routes taken together, at most 10 on the scraping
\* routes taken together and at most 5 on the installation route.
C16_ClassLimits ==
    \A clientId \in Clients :
        /\ AdmittedInClass(CommandKeys, clientId) <= 20
        /\ AdmittedInClass(ScrapeKeys, clientId) <= 10
        /\ AdmittedInClass(InstallKeys, clientId) <= 5

\* Math.ceil(ms / 1000)
CeilSeconds(ms) ==
    IF ms % 1000 = 0 THEN ms \div 1000 ELSE ms \div 1000 + 1

\* C17: in every route, a request checkRateLimit rejects gets a 429 that
\* carries the retry-after value ceil(resetMs / 1000) of the decision, and
\* the route does nothing more for the request.
C17_RetryAfterOnRejection ==
    (req.route # "none" /\ req.pc # "idle" /\ ~req.rateCheck.allowed) =>
        /\ req.pc = "done"
        /\ req.response.status = 429
        /\ <<"Retry-After",
             NumberToString(CeilSeconds(req.rateCheck.resetMs), 10)>>
               \in req.response.headers
        /\ req.verdict = "none"
        /\ ~req.forwarded.called

\* the valid subset of the packages the installation route read
ValidSubset ==
    IF req.body.type = "array" THEN sanitizePackageList(req.body).valid
    ELSE <<>>

\* C18: in install-packages-v2, once the rate check has passed and the body
\* is read, the installer is called only when the valid subset is not empty
\* and then with exactly that subset; when the subset is not empty the only
\* thing that keeps the installer from being called is the missing sandbox,
\* so invalid names alone do not fail the request; when it is empty the
\* request fails with a 400 and the installer is not called.
C18_InstallerIffValidSubset ==
    (/\ req.route \in InstallRoutes
     /\ req.pc \in {"collaborator", "done"}
     /\ req.rateCheck.allowed
     /\ req.body # MalformedJson) =>
        LET valid == ValidSubset
        IN  /\ req.forwarded.called =>
                   /\ valid # <<>>
                   /\ req.forwarded.arg = [packages |-> valid]
            /\ (valid # <<>> /\ ~req.forwarded.called) =>
                   /\ ~req.ready
                   /\ req.response.status = 400
                   /\ req.response.error = "No active sandbox"
            /\ valid = <<>> =>
                   /\ ~req.forwarded.called
                   /\ req.response.status = 400

\* a list with a valid and an invalid name: the installer is called with
\* the valid name alone
C18_Witness ==
    /\ req.route = "install-packages-v2"
    /\ req.forwarded.called
    /\ req.body.type = "array"
    /\ sanitizePackageList(req.body).invalid # <<>>
    /\ req.forwarded.arg = [packages |-> <<<<"r","e","a","c","t">>>>]

\* C19: in every route, when the collaborator throws after validation has
\* passed, the response of the route is the conversion of the exception by
\* safeErrorResponse, a body with the fields error and context.
C19_SanitizedErrorResponse ==
    (req.pc = "done" /\ req.forwarded.called /\ req.response.status = 500) =>
        /\ req.response.fields = {"error", "context"}
        /\ req.response.error = safeErrorResponse(req.thrown, req.route).error


\* the calls made on key so far
CallsOn(key) == Len(decisions[key])

\* C20: every decision of checkRateLimit has remaining >= 0; with count the
\* number of timestamps left in the key's bucket after pruning (the bucket
\* the call leaves, without the timestamp an admission appends), remaining
\* is max(0, limit - count) for a rejected call, which is 0, and one less
\* than that for an admitted call.
C20_RemainingFromCount ==
    [][\A key \in Keys :
          Len(decisions'[key]) = CallsOn(key) + 1 =>
              LET d == decisions'[key][CallsOn(key) + 1]
                  admitted == IF d.allowed THEN 1 ELSE 0
                  count == Len(rateLimitStore'[key]) - admitted
                  left == IF d.maxRequests - count > 0
                          THEN d.maxRequests - count ELSE 0
              IN  /\ d.remaining >= 0
                  /\ d.remaining = left - admitted
                  /\ ~d.allowed => d.remaining = 0]_vars

\* on a key with limit 2 the first call, on an empty bucket, is admitted
\* with remaining 1, the second with remaining 0, and the third is rejected
\* with remaining 0
C20_Witness ==
    \E key \in Keys :
        /\ CallsOn(key) = 3
        /\ decisions[key][1].maxRequests = 2
        /\ decisions[key][1].allowed /\ decisions[key][1].remaining = 1
        /\ decisions[key][2].allowed /\ decisions[key][2].remaining = 0
        /\ ~decisions[key][3].allowed /\ decisions[key][3].remaining = 0


-----------------------------------------------------------------------------
(* Claims about the decisions, the buckets and the sweep *)

\* the step is a call of checkRateLimit on key
CalledOn(key) == Len(decisions'[key]) = Len(decisions[key]) + 1

\* the decision the call of the step returned
Returned(key) == decisions'[key][Len(decisions[key]) + 1]

\* the bucket of key before the step, empty when the store has no entry
BucketBefore(key) ==
    IF key \in DOMAIN rateLimitStore THEN rateLimitStore[key] ELSE <<>>

\* the timestamps that survived the prune of the call of the step: the
\* bucket the call leaves, without the timestamp an admission appends
Surviving(key) ==
    LET after == rateLimitStore'[key]
    IN  IF Returned(key).allowed THEN SubSeq(after, 1, Len(after) - 1)
        ELSE after

\* the smallest element of a non-empty sequence of numbers
Least(q) ==
    CHOOSE t \in {q[i] : i \in 1..Len(q)} : \A i \in 1..Len(q) : t <= q[i]

\* C21: every decision of checkRateLimit, admitted or rejected, has
\* resetMs >= 0 and resetMs = oldest + windowMs - now, where oldest is the
\* oldest timestamp that survived the prune, or now when none did.
C21_ResetFromOldest ==
    [][\A key \in Keys :
          CalledOn(key) =>
              LET d == Returned(key)
                  oldest == IF Surviving(key) = <<>> THEN d.now
                            ELSE Least(Surviving(key))
              IN  /\ d.resetMs >= 0
                  /\ d.resetMs = oldest + d.windowMs - d.now]_vars

\* a rejected call made 60,000 ms after the first of two admissions, the
\* second of which is younger: resetMs counts from the first
C21_Witness ==
    \E key \in Keys :
        /\ CallsOn(key) = 3
        /\ decisions[key][1].allowed
        /\ decisions[key][2].allowed
        /\ decisions[key][2].now > decisions[key][1].now
        /\ ~decisions[key][3].allowed
        /\ decisions[key][3].now > decisions[key][2].now
        /\ decisions[key][3].resetMs =
               decisions[key][1].now + decisions[key][3].windowMs
                   - decisions[key][3].now

\* C22: a call that finds limit or more timestamps in the pruned bucket
\* returns allowed = false and appends nothing: the bucket of the key, and
\* the whole store, are the same after the call as before, so the time at
\* which the key is admitted again does not move.
C22_RejectedNotCounted ==
    [][\A key \in Keys :
          (CalledOn(key) /\ ~Returned(key).allowed) =>
              /\ key \in DOMAIN rateLimitStore
              /\ Len(rateLimitStore[key]) >= Returned(key).maxRequests
              /\ rateLimitStore'[key] = rateLimitStore[key]
              /\ rateLimitStore' = rateLimitStore]_vars

\* two rejected calls after one admission on a key with limit 1: the bucket
\* still holds the timestamp of the admission alone
C22_Witness ==
    \E key \in Keys :
        /\ CallsOn(key) = 3
        /\ decisions[key][1].maxRequests = 1
        /\ decisions[key][1].allowed
        /\ ~decisions[key][2].allowed
        /\ ~decisions[key][3].allowed
        /\ decisions[key][3].now > decisions[key][2].now
        /\ key \in DOMAIN rateLimitStore
        /\ rateLimitStore[key] = <<decisions[key][1].now>>

RECURSIVE SweepFreeBucket(_, _)
SweepFreeBucket(key, j) ==
    IF j = 0 THEN <<>>
    ELSE LET d == decisions[key][j]
         IN  checkRateLimit(SweepFreeBucket(key, j - 1), d.maxRequests,
                            d.windowMs, d.now).timestamps

\* C24: the sweep changes no outcome: each call returned the value of
\* allowed that the same calls, at the same times, return when no sweep
\* runs between them.
C24_SweepChangesNoOutcome ==
    \A key \in Keys : \A j \in 1..Len(decisions[key]) :
        LET d == decisions[key][j]
        IN  d.allowed =
                checkRateLimit(SweepFreeBucket(key, j - 1), d.maxRequests,
                               d.windowMs, d.now).allowed

\* the step is a run of the sweep
Swept == lastSweep' # lastSweep

\* C25: a run of the sweep leaves in every bucket the timestamps younger
\* than 300,000 ms and deletes the buckets that are then empty; the store
\* holds no empty bucket after it, and a key whose last admission is
\* 300,000 ms old or older is gone from the store.
C25_SweepDeletesIdleKeys ==
    [][Swept =>
          /\ \A k \in DOMAIN rateLimitStore' :
                 LET Young(t) == now - t < 300000
                 IN  /\ k \in DOMAIN rateLimitStore
                     /\ rateLimitStore'[k] # <<>>
                     /\ rateLimitStore'[k] = SelectSeq(rateLimitStore[k], Young)
          /\ \A k \in DOMAIN rateLimitStore :
                 LET bucket == rateLimitStore[k]
                 IN  (bucket = <<>> \/ now - bucket[Len(bucket)] >= 300000)
                         => k \notin DOMAIN rateLimitStore']_vars

\* a key that was called is no longer in the store right after a sweep
C25_Witness ==
    /\ lastSweep = now
    /\ lastSweep > 1
    /\ \E key \in Keys :
           /\ CallsOn(key) > 0
           /\ key \notin DOMAIN rateLimitStore

\* C26: a call on a key leaves the bucket of every other key as it was, and
\* its decision and the bucket it leaves are those of checkRateLimit on the
\* key's own bucket, the arguments and the clock.
C26_KeysIndependent ==
    [][\A key \in Keys :
          CalledOn(key) =>
              LET d == Returned(key)
                  own == checkRateLimit(BucketBefore(key), d.maxRequests,
                                        d.windowMs, now)
              IN  /\ \A other \in Keys \ {key} :
                         /\ other \in DOMAIN rateLimitStore'
                                <=> other \in DOMAIN rateLimitStore
                         /\ other \in DOMAIN rateLimitStore =>
                                rateLimitStore'[other] = rateLimitStore[other]
                  /\ d.allowed = own.allowed
                  /\ d.remaining = own.remaining
                  /\ d.resetMs = own.resetMs
                  /\ rateLimitStore'[key] = own.timestamps]_vars

\* a call on one key is admitted while the bucket of the other key is full
C26_Witness ==
    \E key \in Keys : \E other \in Keys \ {key} :
        /\ CallsOn(other) = 2
        /\ ~decisions[other][2].allowed
        /\ CallsOn(key) = 1
        /\ decisions[key][1].allowed
        /\ decisions[key][1].now >= decisions[other][2].now

\* C27: the timestamps of every bucket are in non-decreasing order, and
\* right after a call the bucket of the key holds only timestamps within
\* windowMs of the clock of the call.
C27_BucketsOrderedAndInWindow ==
    [][/\ \A k \in DOMAIN rateLimitStore' :
              \A i \in 1..(Len(rateLimitStore'[k]) - 1) :
                  rateLimitStore'[k][i] <= rateLimitStore'[k][i + 1]
       /\ \A key \in Keys :
              CalledOn(key) =>
                  \A i \in 1..Len(rateLimitStore'[key]) :
                      /\ rateLimitStore'[key][i] <= now
                      /\ now - rateLimitStore'[key][i]
                             <= Returned(key).windowMs]_vars

\* a call that pruned the timestamp of an earlier admission and left two
\* later ones, in order
C27_Witness ==
    \E key \in Keys :
        /\ CallsOn(key) = 3
        /\ key \in DOMAIN rateLimitStore
        /\ Len(rateLimitStore[key]) = 2
        /\ rateLimitStore[key][1] < rateLimitStore[key][2]
        /\ rateLimitStore[key][1] > decisions[key][1].now
        /\ decisions[key][1].allowed

\* the admissions on key at a time in [from, from + windowMs)
AdmittedFrom(key, from, windowMs) ==
    Cardinality({j \in 1..Len(decisions[key]) :
                    /\ decisions[key][j].allowed
                    /\ from <= decisions[key][j].now
                    /\ decisions[key][j].now < from + windowMs})

\* C28: for a key checked with one limit N >= 1 and one window W with
\* 0 < W <= 300,000, whatever the sweeps do, at most N admissions fall in
\* any interval [t, t + W), and the bucket never holds more than N
\* timestamps.  (An interval with the most admissions starts at one.)
C28_SlidingWindowBound ==
    \A key \in Keys :
        (decisions[key] # <<>> /\ decisions[key][1].windowMs <= 300000) =>
            LET N == decisions[key][1].maxRequests
                W == decisions[key][1].windowMs
            IN  /\ \A i \in 1..Len(decisions[key]) :
                       AdmittedFrom(key, decisions[key][i].now, W) <= N
                /\ key \in DOMAIN rateLimitStore =>
                       Len(rateLimitStore[key]) <= N

\* limit 1, window 60,000: an admission, a rejection in the same window, a
\* sweep, and an admission after the window
C28_Witness ==
    \E key \in Keys :
        /\ CallsOn(key) = 3
        /\ decisions[key][1].maxRequests = 1
        /\ decisions[key][1].windowMs = 60000
        /\ decisions[key][1].allowed
        /\ ~decisions[key][2].allowed
        /\ decisions[key][3].allowed
        /\ lastSweep > 1


-----------------------------------------------------------------------------
(* Claims about the slots the refused commands use up *)

\* the key a command route counts the requests of a client under
CommandKey(route, clientId) ==
    RateKey(IF route = "run-command"
            THEN <<"r","u","n","-","c","o","m","m","a","n","d">>
            ELSE <<"r","u","n","-","c","o","m","m","a","n","d","-","v","2">>,
            clientId)

\* the requests of the client admitted on the route in the last 60,000 ms
SlotsIn(store, route, clientId) ==
    LET key == CommandKey(route, clientId)
        Recent(t) == now - t < 60000
    IN  IF key \in DOMAIN store
        THEN Len(SelectSeq(store[key], Recent)) ELSE 0

SlotsUsed(route, clientId) == SlotsIn(rateLimitStore, route, clientId)

\* C29: in a command route an admitted request uses a slot of the client's
\* window, and keeps it when the handler answers 400 because validateCommand
\* rejects the command or no sandbox is active; a request of a client with
\* 20 slots of the route used within 60,000 ms is answered 429 with its
\* command neither read nor validated.
C29_RefusedCommandsUseSlots ==
    [][/\ (req.pc = "idle" /\ req'.route \in CommandRoutes) =>
              IF SlotsUsed(req'.route, req'.clientId) >= 20
              THEN /\ req'.pc = "done"
                   /\ req'.response.status = 429
                   /\ req'.body = IdleRequest.body
                   /\ req'.verdict = "none"
                   /\ ~req'.forwarded.called
                   /\ rateLimitStore' = rateLimitStore
              ELSE /\ req'.pc = "json"
                   /\ SlotsIn(rateLimitStore', req'.route, req'.clientId) =
                          SlotsUsed(req'.route, req'.clientId) + 1
       /\ (/\ req.route \in CommandRoutes
           /\ req.pc = "json"
           /\ req'.response.status = 400) =>
              /\ req'.pc = "done"
              /\ rateLimitStore' = rateLimitStore
              /\ SlotsUsed(req.route, req.clientId) >= 1]_vars

\* the 21st request of a client to run-command after 20 that were each
\* answered 400: a 429, the command unread
C29_Witness ==
    /\ only400
    /\ req.route = "run-command"
    /\ req.pc = "done"
    /\ req.response.status = 429
    /\ req.body = IdleRequest.body
    /\ SlotsUsed(req.route, req.clientId) = 20


-----------------------------------------------------------------------------
(* Claims about the names handed to the installer *)

\* the characters a shell gives a meaning to, and the space
InjectionChars == {";", "&", "|", "BACKTICK", "$", "<", ">", " "}

\* C30: no name of the valid list of sanitizePackageList holds one of the
\* characters ; & | ` $ < > or a space.
C30_NoShellCharsInValid ==
    PkgListSanitized =>
        \A i \in 1..Len(pkgListResult.valid) :
            \A j \in 1..Len(pkgListResult.valid[i]) :
                pkgListResult.valid[i][j] \notin InjectionChars

=============================================================================
